---- MODULE Spec2Model ----
(***************************************************************************)
(* Model of the plugin orchestrator of the CS2 gamemode framework          *)
(* (src/src/core/gamemode-orchestrator.ts) and of the checkpoint helpers   *)
(* it calls (src/dev/src/core/state-utils.ts).                             *)
(*                                                                         *)
(* The host is single-threaded: it calls one handler at a time and a       *)
(* handler runs to its end (or to the exception that leaves it) before     *)
(* the host calls the next one.  A handler is a sequence of steps, one per *)
(* plugin it visits in each of its passes; `pc` and `idx` are its          *)
(* position, and no other handler starts before `pc` is back to "idle".    *)
(* The calls a handler makes on plugin instances and on the host are       *)
(* recorded, in order, in `calls`; what a plugin does when called (whether *)
(* it has the hook, what it returns, whether it throws) is the input of    *)
(* the step that calls it.                                                 *)
(***************************************************************************)
EXTENDS Integers, Sequences, FiniteSets, TLC

VARIABLES
    cfgPlugins,      \* cfg.plugins: the registered descriptors, in registration order
    enabledPlugins,  \* cfg.enabledPlugins: absent, or a list of names
    orderedPlugins,  \* let orderedPlugins: PluginDescriptor[]
    activePlugins,   \* const activePlugins = new Map<string, Plugin>()
    nextThink,       \* the host's think timer: "none" or "scheduled"
    phase,           \* where the host is in the life of the script
    saved,           \* the value `before` returned, which the host hands to `after`
    cycles,          \* number of rebuilds started; instances created now are number cycles + 1
    got,             \* the object each plugin's getState returned in the save half
    handler,         \* the handler the host called last
    pc,              \* the pass that handler is in, "idle" once it has ended
    idx,             \* index in orderedPlugins of the next descriptor of the pass
    calls,           \* the calls that handler has made, in order
    faults,          \* number of isolated plugin failures in that handler
    result,          \* how that handler ended: returned (with what) or threw
    subscriptions,   \* event-bus.ts: const subscriptions = new Map<string, Subscription[]>()
    nextId,          \* event-bus.ts: let nextId = 1
    frames,          \* the emit calls in progress, innermost last
    created,         \* number of subscriptions created so far
    emits,           \* number of emit calls that found subscribers so far
    invoked,         \* how many times the handler of each subscription was called
    heap             \* the objects a plugin state is made of, and the state value itself

orchVars == <<cfgPlugins, enabledPlugins, orderedPlugins, activePlugins, nextThink,
              phase, saved, cycles, got, handler, pc, idx, calls, faults, result>>

busVars == <<subscriptions, nextId, frames, created, emits, invoked>>

vars == <<orchVars, busVars, heap>>

----------------------------------------------------------------------------
(* Bounds *)

NumPlugins == 3
MaxFaults == 1
MaxCycles == 1
MaxSubs == 3
MaxEmits == 2
MaxDepth == 2
MaxOps == 1
MaxNodes == 2

(* Program constants *)

DEFAULT_PRIORITY == 100

----------------------------------------------------------------------------
(* Values *)

Names == 1..NumPlugins
Undefined == <<"undefined">>           \* the value undefined
Absent == <<"absent">>                 \* the instance has no such method
Decision == <<"decision">>             \* a damage decision ({ damage: N } or { abort: true })
Ok == <<"ok">>                         \* a call that returned (nothing of interest)
Value == <<"value">>                   \* a call that returned some value other than undefined
Throws == <<"throws">>                 \* a call that threw
NoEnabledList == [defined |-> FALSE, names |-> {}]
EnabledList(S) == [defined |-> TRUE, names |-> S]
NoPriority == -1                       \* a descriptor without `priority`
PriorityValues == {NoPriority, 10, 100, 200}
NoInstance == 0                        \* activePlugins.get(name) === undefined
EmptyState == <<"empty">>              \* createEmptyState(): {}

NoEntry == <<"no entry">>              \* state[name] === undefined
NoState == [defined |-> FALSE, state |-> [n \in Names |-> NoEntry]]

(* A call: what was called, on which plugin and instance (0, 0 for the host  *)
(* and the event bus), with what argument, and what it returned              *)
CallWith(op, name, inst, arg, val) ==
    [op |-> op, name |-> name, inst |-> inst, arg |-> arg, val |-> val]
Call(op, name, inst, val) == CallWith(op, name, inst, <<>>, val)
Returned(v) == [kind |-> "returned", value |-> v]
Threw(name) == [kind |-> "threw", value |-> <<"error", name>>]
Pending == [kind |-> "pending", value |-> <<>>]

----------------------------------------------------------------------------
(* Plugin registry and ordering *)

(* Variant: a descriptor without `priority` sorts first *)
PriorityOfMissingFirst(d) == IF d.priority = NoPriority THEN 0 ELSE d.priority

PriorityOf(d) == IF d.priority = NoPriority THEN DEFAULT_PRIORITY ELSE d.priority

hasEnabledList(enabled) == enabled.defined /\ Cardinality(enabled.names) > 0

(* Variant: the allow-list is not applied *)
pluginsToLoadUnfiltered(plugins, enabled) == plugins

pluginsToLoad(plugins, enabled) ==
    IF hasEnabledList(enabled)
    THEN SelectSeq(plugins, LAMBDA d : d.name \in enabled.names)
    ELSE plugins

RECURSIVE InsertByPriority(_, _)
InsertByPriority(sorted, d) ==
    IF sorted = <<>> THEN <<d>>
    ELSE IF PriorityOf(Head(sorted)) - PriorityOf(d) <= 0
         THEN <<Head(sorted)>> \o InsertByPriority(Tail(sorted), d)
         ELSE <<d>> \o sorted

RECURSIVE SortByPriority(_)
SortByPriority(s) ==
    IF s = <<>> THEN <<>>
    ELSE InsertByPriority(SortByPriority(SubSeq(s, 1, Len(s) - 1)), s[Len(s)])

getOrderedPlugins(plugins, enabled) == SortByPriority(pluginsToLoad(plugins, enabled))

----------------------------------------------------------------------------
(* Position of the running handler *)

Range(s) == {s[i] : i \in DOMAIN s}

NamesOf(order) == [i \in DOMAIN order |-> order[i].name]

(* for (const { name } of orderedPlugins): the descriptor the pass is at *)
AtPlugin == idx \in DOMAIN orderedPlugins
PassOver == idx > Len(orderedPlugins)
Current == orderedPlugins[idx].name

StartHandler(h, pass, first) ==
    /\ handler' = h
    /\ pc' = pass
    /\ idx' = 1
    /\ calls' = first
    /\ faults' = 0
    /\ result' = Pending

(* The handler goes on to the next descriptor, or to the next pass *)
NextPlugin == idx' = idx + 1 /\ UNCHANGED <<handler, pc, result>>
NextPass(pass) == pc' = pass /\ idx' = 1 /\ UNCHANGED <<handler, result>>

(* The handler ends: it returns v, or an exception of plugin n leaves it *)
Return(v) == pc' = "idle" /\ result' = Returned(v) /\ UNCHANGED <<handler, idx>>
Throw(n) == pc' = "idle" /\ result' = Threw(n) /\ UNCHANGED <<handler, idx>>

(* A failure the checkpoint helpers catch; MaxFaults of them per handler *)
MayFail == faults < MaxFaults

----------------------------------------------------------------------------
(* Lifecycle: fresh boot (initialize, initializePlugins) *)

(* setupMainThinkLoop: SetThink(callback), SetNextThink(now) *)
setupMainThinkLoop ==
    <<Call("SetThink", 0, 0, Ok), Call("SetNextThink", 0, 0, <<"now">>)>>

Initialize ==
    /\ phase = "constructed"
    /\ pc = "idle"
    /\ orderedPlugins' = getOrderedPlugins(cfgPlugins, enabledPlugins)
    /\ phase' = "booting"
    /\ StartHandler("initialize", "initializePlugins", <<>>)
    /\ UNCHANGED <<cfgPlugins, enabledPlugins, activePlugins, nextThink, saved,
                   cycles, got>>
    /\ UNCHANGED busVars
    /\ UNCHANGED heap

(* Variant: the instance is registered before its init() *)
registerBeforeInit(n, inst, outcome) ==
    <<Call("create", n, inst, Ok), Call("set", n, inst, Ok), Call("init", n, inst, outcome)>>

(* One descriptor of initializePlugins: create, init, activePlugins.set *)
initializePlugin(n, inst, outcome) ==
    IF outcome = Throws
    THEN <<Call("create", n, inst, Ok), Call("init", n, inst, Throws)>>
    ELSE <<Call("create", n, inst, Ok), Call("init", n, inst, Ok),
           Call("set", n, inst, Ok)>>

InitializeStep(outcome) ==
    /\ pc = "initializePlugins"
    /\ AtPlugin
    /\ calls' = calls \o initializePlugin(Current, cycles + 1, outcome)
    /\ IF outcome = Throws
       THEN /\ Throw(Current)
            /\ phase' = "failed"
            /\ UNCHANGED activePlugins
       ELSE /\ NextPlugin
            /\ activePlugins' = [activePlugins EXCEPT ![Current] = cycles + 1]
            /\ UNCHANGED phase
    /\ UNCHANGED <<cfgPlugins, enabledPlugins, orderedPlugins, nextThink, saved,
                   cycles, got, faults>>
    /\ UNCHANGED busVars
    /\ UNCHANGED heap

(* The rest of initialize: the event handlers are set up, the think loop starts *)
InitializeEnd ==
    /\ pc = "initializePlugins"
    /\ PassOver
    /\ calls' = calls \o setupMainThinkLoop
    /\ nextThink' = "scheduled"
    /\ phase' = "running"
    /\ Return(Undefined)
    /\ UNCHANGED <<cfgPlugins, enabledPlugins, orderedPlugins, activePlugins,
                   saved, cycles, got, faults>>
    /\ UNCHANGED busVars
    /\ UNCHANGED heap

----------------------------------------------------------------------------
(* Event dispatch (forEachPluginInOrder, dispatchEvent) *)

HookOf(h) == IF h = "think" THEN "onThink" ELSE "onEvent"

(* Any of the fan-out events (OnPlayerConnect, OnRoundStart, ...) *)
OnEvent ==
    /\ phase = "running"
    /\ pc = "idle"
    /\ StartHandler("event", "dispatch", <<>>)
    /\ UNCHANGED <<cfgPlugins, enabledPlugins, orderedPlugins, activePlugins,
                   nextThink, phase, saved, cycles, got>>
    /\ UNCHANGED busVars
    /\ UNCHANGED heap

(* The think callback set by setupMainThinkLoop; the timer has fired *)
OnThink ==
    /\ nextThink = "scheduled"
    /\ pc = "idle"
    /\ nextThink' = "none"
    /\ StartHandler("think", "dispatch", <<>>)
    /\ UNCHANGED <<cfgPlugins, enabledPlugins, orderedPlugins, activePlugins,
                   phase, saved, cycles, got>>
    /\ UNCHANGED busVars
    /\ UNCHANGED heap

(* typeof hook === "function" is false: the plugin is passed over *)
noHook(n, inst) == <<Call("noHook", n, inst, Absent)>>

(* Variant: the hook is called whether or not the instance has it *)
dispatchEventUnchecked(hookName, n, inst, outcome) ==
    IF inst = NoInstance THEN <<>>
    ELSE <<Call(hookName, n, inst, outcome)>>

(* dispatchEvent on one plugin: the hook is called if the instance has it *)
dispatchEvent(hookName, n, inst, outcome) ==
    IF inst = NoInstance THEN <<>>
    ELSE IF outcome = Absent THEN noHook(n, inst)
    ELSE <<Call(hookName, n, inst, outcome)>>

(* Variant: a plugin whose hook throws is taken out of the registry *)
DispatchStepEvicts(outcome) ==
    /\ pc = "dispatch"
    /\ AtPlugin
    /\ calls' = calls \o dispatchEvent(HookOf(handler), Current, activePlugins[Current], outcome)
    /\ IF outcome = Throws
       THEN /\ Throw(Current)
            /\ activePlugins' = [activePlugins EXCEPT ![Current] = NoInstance]
       ELSE NextPlugin /\ UNCHANGED activePlugins
    /\ UNCHANGED <<cfgPlugins, enabledPlugins, orderedPlugins,
                   nextThink, phase, saved, cycles, got, faults>>
    /\ UNCHANGED busVars
    /\ UNCHANGED heap

(* Variant: the exception of a hook is swallowed and the pass goes on *)
DispatchStepIsolated(outcome) ==
    /\ pc = "dispatch"
    /\ AtPlugin
    /\ calls' = calls \o dispatchEvent(HookOf(handler), Current, activePlugins[Current], outcome)
    /\ NextPlugin
    /\ UNCHANGED <<cfgPlugins, enabledPlugins, orderedPlugins, activePlugins,
                   nextThink, phase, saved, cycles, got, faults>>
    /\ UNCHANGED busVars
    /\ UNCHANGED heap

DispatchStep(outcome) ==
    /\ pc = "dispatch"
    /\ AtPlugin
    /\ LET made == dispatchEvent(HookOf(handler), Current, activePlugins[Current], outcome)
       IN /\ calls' = calls \o made
          /\ IF made # <<>> /\ outcome = Throws THEN Throw(Current) ELSE NextPlugin
    /\ UNCHANGED <<cfgPlugins, enabledPlugins, orderedPlugins, activePlugins,
                   nextThink, phase, saved, cycles, got, faults>>
    /\ UNCHANGED busVars
    /\ UNCHANGED heap

(* The pass is over; the think callback then schedules the next tick *)
DispatchEnd ==
    /\ pc = "dispatch"
    /\ PassOver
    /\ IF handler = "think"
       THEN /\ calls' = Append(calls, Call("SetNextThink", 0, 0, <<"interval">>))
            /\ nextThink' = "scheduled"
       ELSE UNCHANGED <<calls, nextThink>>
    /\ Return(Undefined)
    /\ UNCHANGED <<cfgPlugins, enabledPlugins, orderedPlugins, activePlugins,
                   phase, saved, cycles, got, faults>>
    /\ UNCHANGED busVars
    /\ UNCHANGED heap

----------------------------------------------------------------------------
(* Damage override (OnBeforePlayerDamage) *)

DamageOutcomes == {Absent, Undefined, Decision, Throws}

OnBeforePlayerDamage ==
    /\ phase = "running"
    /\ pc = "idle"
    /\ StartHandler("damage", "damage", <<>>)
    /\ UNCHANGED <<cfgPlugins, enabledPlugins, orderedPlugins, activePlugins,
                   nextThink, phase, saved, cycles, got>>
    /\ UNCHANGED busVars
    /\ UNCHANGED heap

(* What the hook of plugin n returns: nothing, or a decision of its own *)
onBeforePlayerDamage(n, outcome) == IF outcome = Decision THEN <<"decision", n>> ELSE outcome

(* Variant: the iteration does not stop at a decision *)
nobodyWins(r) == FALSE

(* Variant: the iteration stops at the first hook called *)
everyResponseWins(r) == TRUE

(* if (result !== undefined) return result *)
firstResponderWins(r) == r # Undefined

DamageStep(outcome) ==
    /\ pc = "damage"
    /\ AtPlugin
    /\ LET inst == activePlugins[Current]
           r    == onBeforePlayerDamage(Current, outcome)
       IN IF inst = NoInstance
          THEN NextPlugin /\ UNCHANGED calls
          ELSE IF outcome = Absent
          THEN NextPlugin /\ calls' = calls \o noHook(Current, inst)
          ELSE /\ calls' = Append(calls, Call("onBeforePlayerDamage", Current, inst, r))
               /\ IF outcome = Throws THEN Throw(Current)
                  ELSE IF firstResponderWins(r) THEN Return(r)
                  ELSE NextPlugin
    /\ UNCHANGED <<cfgPlugins, enabledPlugins, orderedPlugins, activePlugins,
                   nextThink, phase, saved, cycles, got, faults>>
    /\ UNCHANGED busVars
    /\ UNCHANGED heap

(* No plugin modified or aborted: return undefined *)
DamageEnd ==
    /\ pc = "damage"
    /\ PassOver
    /\ Return(Undefined)
    /\ UNCHANGED <<cfgPlugins, enabledPlugins, orderedPlugins, activePlugins,
                   nextThink, phase, saved, cycles, got, calls, faults>>
    /\ UNCHANGED busVars
    /\ UNCHANGED heap

----------------------------------------------------------------------------
(* Checkpoint helpers (state-utils.ts) *)

Null == <<"null">>                     \* getState returned null or undefined
NonObject == <<"nonobject">>           \* getState returned a number, a string, ...
Obj == <<"obj">>                       \* getState returned an object
GetStateOutcomes == {Obj, Null, NonObject, Throws, Absent}
NoObject == <<"no object">>
NothingGot == [n \in Names |-> NoObject]

(* The state object instance `inst` of plugin `n` returns from getState *)
StateOf(n, inst) == <<"state", n, inst>>

(* What plugin.getState() gives back when the plugin behaves as `outcome` *)
getState(n, inst, outcome) == IF outcome = Obj THEN StateOf(n, inst) ELSE outcome

(* SafeStateResult: success, data, and error (the message) when there is one *)
NoError == <<"no error">>
SafeStateResult(success, data, error) ==
    [success |-> success, data |-> data, error |-> error]

(* Variant: a null state counts as a failure *)
safeGetStateNullFails(n, inst, outcome) ==
    IF outcome = Obj THEN SafeStateResult(TRUE, StateOf(n, inst), NoError)
    ELSE SafeStateResult(FALSE, EmptyState, <<"error", outcome>>)

safeGetState(n, inst, outcome) ==
    IF outcome = Absent
    THEN SafeStateResult(FALSE, EmptyState, <<"error", "no getState method">>)
    ELSE IF outcome = Throws
    THEN SafeStateResult(FALSE, EmptyState, <<"error", "thrown">>)
    ELSE IF outcome = Null
    THEN SafeStateResult(TRUE, EmptyState, NoError)
    ELSE IF outcome = NonObject
    THEN SafeStateResult(FALSE, EmptyState, <<"error", "State must be an object">>)
    ELSE SafeStateResult(TRUE, getState(n, inst, outcome), NoError)

(* safeGetState in the log: what getState returned, Throws if it threw,     *)
(* Absent if the instance has no getState and nothing was called           *)
safeGetStateCalls(n, inst, outcome) ==
    <<Call("safeGetState", n, inst, getState(n, inst, outcome))>>

(* safeRestoreState: true iff restoreState was called and returned *)
safeRestoreState(state, outcome) ==
    IF outcome = Absent THEN FALSE
    ELSE IF state = Undefined \/ state = Null THEN FALSE
    ELSE outcome # Throws

(* safeRestoreState in the log: the state it was given and how              *)
(* restoreState(state) ended, Absent if nothing was called                  *)
safeRestoreStateCalls(n, inst, state, outcome) ==
    <<CallWith("safeRestoreState", n, inst, state,
               IF state = Undefined \/ state = Null THEN Absent ELSE outcome)>>

(* Variant: the hook is called twice *)
hotReloadCompleteTwice(n, inst, outcome) ==
    <<Call("safeHotReloadComplete", n, inst, outcome),
      Call("safeHotReloadComplete", n, inst, outcome)>>

(* safeHotReloadComplete in the log: how onHotReloadComplete() ended,       *)
(* Absent if the instance has no such hook and nothing was called           *)
safeHotReloadCompleteCalls(n, inst, outcome) ==
    <<Call("safeHotReloadComplete", n, inst, outcome)>>

----------------------------------------------------------------------------
(* Plugin state values and validateStateShape (state-utils.ts) *)

Fn == <<"function">>                   \* a function-typed value
Ref(k) == <<"ref", k>>                 \* a reference to object k
Nodes == 1..MaxNodes
Keys == <<"a", "b">>                   \* the property names of an object, in insertion order
Indices == <<"0", "1">>                \* the indices of an array
FieldValues == {Null, Fn} \cup {Ref(k) : k \in Nodes}

(* An object: a plain object with the properties Keys, an array with the    *)
(* elements Indices, or an object that has an IsValid method                *)
PlainNode(kind, fields) == [kind |-> kind, fields |-> fields]
EntityNode == [kind |-> "entity", fields |-> <<>>]
NodeValues ==
    {PlainNode(kind, fields) : kind \in {"object", "array"},
                               fields \in [DOMAIN Keys -> FieldValues]}
        \cup {EntityNode}

(* No state: nothing for the walk to visit *)
NoNodes == [k \in Nodes |-> EntityNode]
NoHeap == [state |-> Null, nodes |-> NoNodes]

(* The state values: an object (object 1 of the graph), null/undefined, or  *)
(* a value that is not an object                                            *)
Heaps ==
    {[state |-> Ref(1), nodes |-> nodes] : nodes \in [Nodes -> NodeValues]}
        \cup {[state |-> v, nodes |-> NoNodes] : v \in {Null, NonObject}}

IsObject(v) == Len(v) = 2 /\ v[1] = "ref"

Issue(kind, path) == [kind |-> kind, path |-> path]

(* `${path}.${key}` and `${path}[${index}]` *)
PropertyPath(path, i) == Append(path, <<".", Keys[i]>>)
ElementPath(path, i) == Append(path, <<"[", Indices[i]>>)

(* Variant: array elements are not visited *)
entriesOfObjectsOnly(nodes, k, path) ==
    IF nodes[k].kind = "array" THEN <<>>
    ELSE [i \in DOMAIN nodes[k].fields |->
             [value |-> nodes[k].fields[i], path |-> PropertyPath(path, i)]]

(* value.forEach(...) / Object.entries(value).forEach(...): the values to   *)
(* check next, with their paths, in order                                   *)
entries(nodes, k, path) ==
    [i \in DOMAIN nodes[k].fields |->
        [value |-> nodes[k].fields[i],
         path |-> IF nodes[k].kind = "array" THEN ElementPath(path, i)
                  ELSE PropertyPath(path, i)]]

(* checkValue, the recursion unfolded: `todo` are the calls still to make,  *)
(* first first; `walk` holds issues, the set seen, and the objects entered  *)
RECURSIVE checkValue(_, _, _)
checkValue(nodes, todo, walk) ==
    IF todo = <<>> THEN walk
    ELSE LET value == Head(todo).value
             path  == Head(todo).path
             rest  == Tail(todo)
         IN IF value = Null THEN checkValue(nodes, rest, walk)
            ELSE IF value = Fn
            THEN checkValue(nodes, rest,
                     [walk EXCEPT !.issues = Append(@, Issue("Function", path))])
            ELSE IF IsObject(value)
            THEN LET k == value[2] IN
                 IF k \in walk.seen
                 THEN checkValue(nodes, rest,
                          [walk EXCEPT !.issues = Append(@, Issue("Circular reference", path))])
                 ELSE LET entered == [walk EXCEPT !.seen = @ \cup {k},
                                                  !.visits = Append(@, k)]
                      IN IF nodes[k].kind = "entity"
                         THEN checkValue(nodes, rest,
                                  [entered EXCEPT !.issues =
                                      Append(@, Issue("Entity reference", path))])
                         ELSE checkValue(nodes, entries(nodes, k, path) \o rest, entered)
            ELSE checkValue(nodes, rest, walk)

(* Variant: a cycle is looked for on the path from the state object down    *)
(* to the value (`up`), so that an object is entered once per path to it    *)
RECURSIVE checkValueOnPath(_, _, _)
checkValueOnPath(nodes, todo, walk) ==
    IF todo = <<>> THEN walk
    ELSE LET value == Head(todo).value
             path  == Head(todo).path
             up    == Head(todo).up
             rest  == Tail(todo)
         IN IF value = Null THEN checkValueOnPath(nodes, rest, walk)
            ELSE IF value = Fn
            THEN checkValueOnPath(nodes, rest,
                     [walk EXCEPT !.issues = Append(@, Issue("Function", path))])
            ELSE IF IsObject(value)
            THEN LET k == value[2] IN
                 IF k \in up
                 THEN checkValueOnPath(nodes, rest,
                          [walk EXCEPT !.issues = Append(@, Issue("Circular reference", path))])
                 ELSE LET entered == [walk EXCEPT !.seen = @ \cup {k},
                                                  !.visits = Append(@, k)]
                          below == entries(nodes, k, path)
                      IN IF nodes[k].kind = "entity"
                         THEN checkValueOnPath(nodes, rest,
                                  [entered EXCEPT !.issues =
                                      Append(@, Issue("Entity reference", path))])
                         ELSE checkValueOnPath(nodes,
                                  [i \in DOMAIN below |->
                                      [value |-> below[i].value, path |-> below[i].path,
                                       up |-> up \cup {k}]] \o rest,
                                  entered)
            ELSE checkValueOnPath(nodes, rest, walk)

walkStateOnPath(h) ==
    checkValueOnPath(h.nodes, <<[value |-> h.state, path |-> <<"state">>, up |-> {}]>>,
                     [issues |-> <<>>, seen |-> {}, visits |-> <<>>])

(* checkValue(state, "state") *)
walkState(h) ==
    checkValue(h.nodes, <<[value |-> h.state, path |-> <<"state">>]>>,
               [issues |-> <<>>, seen |-> {}, visits |-> <<>>])

(* error: issues.join("; ") keeps the issues and their order *)
validateStateShape(h) ==
    IF ~IsObject(h.state)
    THEN [valid |-> FALSE, error |-> <<Issue("State must be an object", <<>>)>>]
    ELSE LET issues == walkState(h).issues
         IN [valid |-> issues = <<>>, error |-> issues]

(* safeRestoreState, lines 121-129: validate, warn when the shape is not    *)
(* valid, then feature.restoreState(state)                                  *)
InvalidShapeWarning(validation) ==
    IF validation.valid THEN <<>>
    ELSE <<CallWith("Msg", 0, 0, validation.error, <<"invalid state shape">>)>>

(* Variant: a state of invalid shape is not restored *)
validateOrSkip(h, n, inst, outcome) ==
    IF validateStateShape(h).valid
    THEN <<CallWith("restoreState", n, inst, h.state, outcome)>>
    ELSE InvalidShapeWarning(validateStateShape(h))

validateThenRestore(h, n, inst, outcome) ==
    InvalidShapeWarning(validateStateShape(h))
        \o <<CallWith("restoreState", n, inst, h.state, outcome)>>

(* What safeRestoreState does with the state h.state on a plugin whose      *)
(* restoreState behaves as `outcome`                                        *)
safeRestoreStateOn(h, n, inst, outcome) ==
    IF outcome = Absent THEN <<>>
    ELSE IF h.state = Undefined \/ h.state = Null THEN <<>>
    ELSE validateThenRestore(h, n, inst, outcome)

(* The value getState returns when it returns the state h.state *)
returnedBy(h) == IF IsObject(h.state) THEN Obj ELSE h.state

----------------------------------------------------------------------------
(* The checkpoint helpers called on their own, on plugin 1, instance 1 *)

CallHelper(name, made, value) ==
    /\ handler = "none"
    /\ pc = "idle"
    /\ handler' = name
    /\ calls' = made
    /\ result' = Returned(value)
    /\ UNCHANGED <<cfgPlugins, enabledPlugins, orderedPlugins, activePlugins,
                   nextThink, phase, saved, cycles, got, pc, idx, faults>>
    /\ UNCHANGED busVars
    /\ UNCHANGED heap

(* safeGetState(plugin, name, instance); getState returns the state, throws *)
(* or is absent                                                             *)
SafeGetState(behaviour) ==
    LET outcome == IF behaviour = Ok THEN returnedBy(heap) ELSE behaviour
    IN CallHelper("safeGetState", safeGetStateCalls(1, 1, outcome),
                  safeGetState(1, 1, outcome))

(* safeRestoreState(plugin, state, name, instance) *)
SafeRestoreState(outcome) ==
    CallHelper("safeRestoreState",
               safeRestoreStateCalls(1, 1, heap.state, outcome)
                   \o safeRestoreStateOn(heap, 1, 1, outcome),
               <<safeRestoreState(heap.state, outcome)>>)

(* validateStateShape(state, name) *)
ValidateStateShape ==
    CallHelper("validateStateShape", <<>>, validateStateShape(heap))

----------------------------------------------------------------------------
(* Event bus (event-bus.ts) *)

EventNames == {"x", "y"}

(* interface Subscription { id, eventName, handler, once }; `uid` stands    *)
(* for the handler (ids are handed out again after clearAll, handlers are   *)
(* not) and `born` is the generation of plugin instances that subscribed    *)
Subscription(id, uid, eventName, once, born) ==
    [id |-> id, uid |-> uid, eventName |-> eventName, once |-> once, born |-> born]

NoSubscription == Subscription(0, 0, "", FALSE, 0)

(* subscriptions.get(eventName) is undefined: no array, written <<>> (an     *)
(* array in the map is never empty)                                          *)
NoSubscriptions == [e \in EventNames |-> <<>>]

(* The bus as one value: the map, the id counter, the emits in progress *)
Bus == [subs |-> subscriptions, next |-> nextId, frames |-> frames]

SetBus(B) ==
    /\ subscriptions' = B.subs
    /\ nextId' = B.next
    /\ frames' = B.frames

(* An emit in progress: `const subs = subscriptions.get(eventName)` is the   *)
(* array of the map itself (live) until the map drops that array, after      *)
(* which the emit still holds the array as it then was (own); i is the       *)
(* position of the for-of iterator, cur the subscription whose handler is    *)
(* running.  snapshot, delivered, threw and offed record what the emit       *)
(* found when it started and what has happened in it since                   *)
Frame(e, subs) ==
    [event |-> e, live |-> TRUE, own |-> <<>>, i |-> 1, toRemove |-> <<>>,
     stage |-> "loop", cur |-> NoSubscription, ops |-> 0,
     snapshot |-> subs, delivered |-> <<>>,
     threw |-> {}, offed |-> {}]

Top == frames[Len(frames)]
InHandler == frames # <<>> /\ Top.stage = "handler"

(* The array an emit iterates *)
FrameArray(B, f) == IF f.live THEN B.subs[f.event] ELSE f.own

(* The map drops the array of event e: the emits that iterate it keep it *)
Detach(fs, e, contents) ==
    [k \in DOMAIN fs |->
        IF fs[k].live /\ fs[k].event = e
        THEN [fs[k] EXCEPT !.live = FALSE, !.own = contents]
        ELSE fs[k]]

RECURSIVE DetachAll(_, _, _)
DetachAll(fs, subs, events) ==
    IF events = {} THEN fs
    ELSE LET e == CHOOSE e \in events : TRUE
         IN DetachAll(Detach(fs, e, subs[e]), subs, events \ {e})

(* subs.push(subscription), on a new array if the event has none; nextId++ *)
addSubscription(B, eventName, once, uid, born) ==
    [B EXCEPT !.subs[eventName] = Append(@, Subscription(B.next, uid, eventName, once, born)),
              !.next = @ + 1]

(* subs.findIndex((s) => s.id === subscriptionId); subs.splice(index, 1) *)
RECURSIVE findIndex(_, _, _)
findIndex(subs, id, k) ==
    IF k > Len(subs) THEN 0
    ELSE IF subs[k].id = id THEN k
    ELSE findIndex(subs, id, k + 1)

(* Variant: subs.splice(index), which removes the rest of the array as well *)
spliceToEnd(subs, index) == SubSeq(subs, 1, index - 1)

splice(subs, index) == SubSeq(subs, 1, index - 1) \o SubSeq(subs, index + 1, Len(subs))

(* off: the first array that holds the id loses that element; an array left  *)
(* empty is deleted from the map                                             *)
off(B, id) ==
    LET hit == {e \in EventNames : findIndex(B.subs[e], id, 1) # 0} IN
    IF hit = {} THEN B
    ELSE LET e == CHOOSE e \in hit : TRUE
             rest == splice(B.subs[e], findIndex(B.subs[e], id, 1))
         IN [B EXCEPT !.subs[e] = rest,
                      !.frames = IF rest = <<>> THEN Detach(@, e, <<>>) ELSE @]

(* for (const id of toRemove) this.off(id) *)
RECURSIVE offEach(_, _)
offEach(B, ids) ==
    IF ids = <<>> THEN B ELSE offEach(off(B, Head(ids)), Tail(ids))

(* Variant: clear empties the whole map *)
clearEveryEvent(B, e) ==
    [B EXCEPT !.subs = NoSubscriptions, !.frames = DetachAll(@, B.subs, EventNames)]

(* clear(eventName): subscriptions.delete(eventName) *)
clearEvent(B, e) ==
    [B EXCEPT !.subs[e] = <<>>, !.frames = Detach(@, e, B.subs[e])]

(* clearAll(): subscriptions.clear(); nextId = 1 *)
clearAll(B) ==
    [subs |-> NoSubscriptions, next |-> 1,
     frames |-> DetachAll(B.frames, B.subs, EventNames)]

(* hasSubscribers(eventName), subscriberCount(eventName) *)
hasSubscribers(B, e) == B.subs[e] # <<>>
subscriberCount(B, e) == Len(B.subs[e])

(* The bus is called by the host script between handlers, or by the handler  *)
(* that is running, at most MaxOps times per invocation                      *)
CanCall == frames = <<>> \/ (InHandler /\ Top.ops < MaxOps)

(* The call is counted against the handler that makes it *)
Calling(B) ==
    IF B.frames = <<>> THEN B
    ELSE [B EXCEPT !.frames[Len(B.frames)].ops = @ + 1]

(* on(eventName, handler), once(eventName, handler) *)
On(e, once) ==
    /\ CanCall
    /\ created < MaxSubs
    /\ SetBus(addSubscription(Calling(Bus), e, once, created + 1, cycles + 1))
    /\ created' = created + 1
    /\ UNCHANGED <<emits, invoked>>
    /\ UNCHANGED orchVars
    /\ UNCHANGED heap

(* off(subscriptionId) *)
Off(id) ==
    /\ CanCall
    /\ LET B == Calling(Bus)
           noted == [B EXCEPT !.frames =
                        [k \in DOMAIN @ |-> [@[k] EXCEPT !.offed = @ \cup {id}]]]
       IN SetBus(off(noted, id))
    /\ UNCHANGED <<created, emits, invoked>>
    /\ UNCHANGED orchVars
    /\ UNCHANGED heap

(* clear(eventName) *)
Clear(e) ==
    /\ CanCall
    /\ SetBus(clearEvent(Calling(Bus), e))
    /\ UNCHANGED <<created, emits, invoked>>
    /\ UNCHANGED orchVars
    /\ UNCHANGED heap

(* clearAll() *)
ClearAll ==
    /\ CanCall
    /\ SetBus(clearAll(Calling(Bus)))
    /\ UNCHANGED <<created, emits, invoked>>
    /\ UNCHANGED orchVars
    /\ UNCHANGED heap

(* emit(eventName, data) up to the loop: no subscribers, return; else the    *)
(* loop starts on the array of the map                                       *)
Emit(e) ==
    /\ CanCall
    /\ Len(frames) < MaxDepth
    /\ emits < MaxEmits
    /\ subscriptions[e] # <<>>
    /\ LET B == Calling(Bus)
       IN SetBus([B EXCEPT !.frames = Append(@, Frame(e, B.subs[e]))])
    /\ emits' = emits + 1
    /\ UNCHANGED <<created, invoked>>
    /\ UNCHANGED orchVars
    /\ UNCHANGED heap

EmitNoSubscribers(e) ==
    /\ CanCall
    /\ subscriptions[e] = <<>>
    /\ SetBus(Calling(Bus))
    /\ UNCHANGED <<created, emits, invoked>>
    /\ UNCHANGED orchVars
    /\ UNCHANGED heap

(* for (const sub of subs): the iterator takes the element at its position,  *)
(* if the array still has one there, and sub.handler(data) is called         *)
EmitNext ==
    /\ frames # <<>>
    /\ Top.stage = "loop"
    /\ Top.i <= Len(FrameArray(Bus, Top))
    /\ LET sub == FrameArray(Bus, Top)[Top.i]
       IN /\ frames' = [frames EXCEPT ![Len(frames)] =
                           [@ EXCEPT !.i = @ + 1, !.stage = "handler", !.cur = sub,
                                     !.ops = 0, !.delivered = Append(@, sub.uid)]]
          /\ invoked' = [invoked EXCEPT ![sub.uid] = @ + 1]
    /\ UNCHANGED <<subscriptions, nextId, created, emits>>
    /\ UNCHANGED orchVars
    /\ UNCHANGED heap

(* The handler returns: if (sub.once) toRemove.push(sub.id) *)
HandlerReturns ==
    /\ InHandler
    /\ frames' = [frames EXCEPT ![Len(frames)] =
                     [@ EXCEPT !.stage = "loop",
                               !.toRemove = IF Top.cur.once THEN Append(@, Top.cur.id) ELSE @]]
    /\ UNCHANGED <<subscriptions, nextId, created, emits, invoked>>
    /\ UNCHANGED orchVars
    /\ UNCHANGED heap

(* The handler throws: catch (error) { instance.Msg(...) } *)
HandlerThrows ==
    /\ InHandler
    /\ frames' = [frames EXCEPT ![Len(frames)] =
                     [@ EXCEPT !.stage = "loop", !.threw = @ \cup {Top.cur.uid}]]
    /\ UNCHANGED <<subscriptions, nextId, created, emits, invoked>>
    /\ UNCHANGED orchVars
    /\ UNCHANGED heap

(* The iterator is past the end of the array: the loop is over *)
EmitLoopEnd ==
    /\ frames # <<>>
    /\ Top.stage = "loop"
    /\ Top.i > Len(FrameArray(Bus, Top))
    /\ frames' = [frames EXCEPT ![Len(frames)].stage = "remove"]
    /\ UNCHANGED <<subscriptions, nextId, created, emits, invoked>>
    /\ UNCHANGED orchVars
    /\ UNCHANGED heap

(* for (const id of toRemove) this.off(id); emit returns *)
EmitEnd ==
    /\ frames # <<>>
    /\ Top.stage = "remove"
    /\ LET B == offEach(Bus, Top.toRemove)
       IN SetBus([B EXCEPT !.frames = SubSeq(@, 1, Len(@) - 1)])
    /\ UNCHANGED <<created, emits, invoked>>
    /\ UNCHANGED orchVars
    /\ UNCHANGED heap

----------------------------------------------------------------------------
(* Checkpoint cycle, save half: OnScriptReload({ before }) *)

(* Variant: the bus is cleared before the think loop is stopped *)
clearBusThenStopThink ==
    <<Call("clearAll", 0, 0, Ok), Call("SetNextThink", 0, 0, <<"never">>)>>

(* instance.SetNextThink(-1); eventBus.clearAll() *)
stopThinkThenClearBus ==
    <<Call("SetNextThink", 0, 0, <<"never">>), Call("clearAll", 0, 0, Ok)>>

(* Variant: the save half leaves the think timer as it is *)
OnScriptReloadBeforeKeepsThink ==
    /\ phase = "running"
    /\ pc = "idle"
    /\ cycles < MaxCycles
    /\ phase' = "saving"
    /\ saved' = NoState
    /\ got' = NothingGot
    /\ StartHandler("before", "cleanup", stopThinkThenClearBus)
    /\ UNCHANGED <<cfgPlugins, enabledPlugins, orderedPlugins, activePlugins, cycles,
                   nextThink>>
    /\ SetBus(clearAll(Bus))
    /\ UNCHANGED <<created, emits, invoked>>
    /\ UNCHANGED heap

OnScriptReloadBefore ==
    /\ phase = "running"
    /\ pc = "idle"
    /\ cycles < MaxCycles
    /\ phase' = "saving"
    /\ nextThink' = "none"
    /\ saved' = NoState
    /\ got' = NothingGot
    /\ StartHandler("before", "cleanup", stopThinkThenClearBus)
    /\ UNCHANGED <<cfgPlugins, enabledPlugins, orderedPlugins, activePlugins, cycles>>
    /\ SetBus(clearAll(Bus))
    /\ UNCHANGED <<created, emits, invoked>>
    /\ UNCHANGED heap

(* plugin.cleanup(); the exception of a cleanup leaves `before`, and the    *)
(* host then either goes on with the reload (with no state) or gives it up  *)
CleanupStep(outcome, hostGoesOn) ==
    /\ pc = "cleanup"
    /\ AtPlugin
    /\ outcome = Ok => hostGoesOn
    /\ IF activePlugins[Current] = NoInstance
       THEN NextPlugin /\ UNCHANGED <<calls, phase>>
       ELSE /\ calls' = Append(calls, Call("cleanup", Current, activePlugins[Current], outcome))
            /\ IF outcome = Throws
               THEN /\ Throw(Current)
                    /\ phase' = IF hostGoesOn THEN "torn_down" ELSE "running"
               ELSE NextPlugin /\ UNCHANGED phase
    /\ UNCHANGED <<cfgPlugins, enabledPlugins, orderedPlugins, activePlugins,
                   nextThink, saved, cycles, got, faults>>
    /\ UNCHANGED busVars
    /\ UNCHANGED heap

CleanupEnd ==
    /\ pc = "cleanup"
    /\ PassOver
    /\ NextPass("getState")
    /\ UNCHANGED <<cfgPlugins, enabledPlugins, orderedPlugins, activePlugins,
                   nextThink, phase, saved, cycles, got, calls, faults>>
    /\ UNCHANGED busVars
    /\ UNCHANGED heap

(* Variant: the state is stored under the name of the next plugin *)
aggregateUnderNextName(state, n, r) ==
    IF r.success THEN [state EXCEPT ![(n % NumPlugins) + 1] = r.data] ELSE state

(* Variant: the result is stored whether or not it succeeded *)
aggregateAlways(state, n, r) == [state EXCEPT ![n] = r.data]

(* if (result.success) state[name] = result.data *)
aggregateState(state, n, r) ==
    IF r.success THEN [state EXCEPT ![n] = r.data] ELSE state

GetStateStep(outcome) ==
    /\ pc = "getState"
    /\ AtPlugin
    /\ outcome # Obj => MayFail
    /\ LET inst == activePlugins[Current] IN
       IF inst = NoInstance
       THEN UNCHANGED <<calls, saved, got, faults>>
       ELSE /\ calls' = calls \o safeGetStateCalls(Current, inst, outcome)
            /\ saved' = [saved EXCEPT !.state =
                            aggregateState(@, Current, safeGetState(Current, inst, outcome))]
            /\ got' = [got EXCEPT ![Current] =
                          IF outcome = Obj THEN getState(Current, inst, outcome) ELSE @]
            /\ faults' = IF outcome = Obj THEN faults ELSE faults + 1
    /\ NextPlugin
    /\ UNCHANGED <<cfgPlugins, enabledPlugins, orderedPlugins, activePlugins,
                   nextThink, phase, cycles>>
    /\ UNCHANGED busVars
    /\ UNCHANGED heap

(* return state: the host keeps it for `after` *)
BeforeEnd ==
    /\ pc = "getState"
    /\ PassOver
    /\ saved' = [saved EXCEPT !.defined = TRUE]
    /\ phase' = "torn_down"
    /\ Return(<<"state">>)
    /\ UNCHANGED <<cfgPlugins, enabledPlugins, orderedPlugins, activePlugins,
                   nextThink, cycles, got, calls, faults>>
    /\ UNCHANGED busVars
    /\ UNCHANGED heap

(* The configuration may be edited while the script is reloaded *)
Reconfigure(enabled) ==
    /\ phase = "torn_down"
    /\ pc = "idle"
    /\ enabledPlugins' = enabled
    /\ UNCHANGED <<cfgPlugins, orderedPlugins, activePlugins, nextThink, phase,
                   saved, cycles, got, handler, pc, idx, calls, faults, result>>
    /\ UNCHANGED busVars
    /\ UNCHANGED heap

----------------------------------------------------------------------------
(* Checkpoint cycle, rebuild half: OnScriptReload({ after }) *)

(* Variant: the registry is not cleared before the instances are created *)
clearNothing(active) == active

(* activePlugins.clear() *)
clear(active) == [n \in Names |-> NoInstance]

(* orderedPlugins = getOrderedPlugins(); createPluginInstances() begins with *)
(* activePlugins.clear(); `cycles` numbers the generation of instances       *)
OnScriptReloadAfter ==
    /\ phase = "torn_down"
    /\ pc = "idle"
    /\ orderedPlugins' = getOrderedPlugins(cfgPlugins, enabledPlugins)
    /\ activePlugins' = clear(activePlugins)
    /\ cycles' = cycles + 1
    /\ phase' = "rebuilding"
    /\ StartHandler("after", "create", <<Call("clear", 0, 0, Ok)>>)
    /\ UNCHANGED <<cfgPlugins, enabledPlugins, nextThink, saved, got>>
    /\ UNCHANGED busVars
    /\ UNCHANGED heap

(* Variant: the instance is initialised as soon as it is created *)
createAndInit(n, inst) ==
    <<Call("create", n, inst, Ok), Call("init", n, inst, Ok), Call("set", n, inst, Ok)>>

(* One descriptor of createPluginInstances: create, activePlugins.set *)
createPluginInstance(n, inst) ==
    <<Call("create", n, inst, Ok), Call("set", n, inst, Ok)>>

CreateStep ==
    /\ pc = "create"
    /\ AtPlugin
    /\ calls' = calls \o createPluginInstance(Current, cycles + 1)
    /\ activePlugins' = [activePlugins EXCEPT ![Current] = cycles + 1]
    /\ NextPlugin
    /\ UNCHANGED <<cfgPlugins, enabledPlugins, orderedPlugins, nextThink, phase,
                   saved, cycles, got, faults>>
    /\ UNCHANGED busVars
    /\ UNCHANGED heap

(* The pass that follows createPluginInstances: if (state) { restore pass } *)
afterCreate(state) == IF state.defined THEN "restore" ELSE "init"

(* What the log keeps of a pass once it is over: the calls and how they     *)
(* ended, not the arguments                                                 *)
Forget(log) == [i \in DOMAIN log |-> [log[i] EXCEPT !.arg = <<>>]]

CreateEnd ==
    /\ pc = "create"
    /\ PassOver
    /\ NextPass(afterCreate(saved))
    /\ IF afterCreate(saved) = "init"
       THEN saved' = NoState /\ got' = NothingGot
       ELSE UNCHANGED <<saved, got>>
    /\ UNCHANGED <<cfgPlugins, enabledPlugins, orderedPlugins, activePlugins,
                   nextThink, phase, cycles, calls, faults>>
    /\ UNCHANGED busVars
    /\ UNCHANGED heap

(* Variant: the restore is attempted whether or not there is an entry *)
restoreStateAlways(state, n, inst, outcome) ==
    IF inst # NoInstance
    THEN safeRestoreStateCalls(n, inst, state[n], outcome)
    ELSE <<>>

(* if (state[name]) safeRestoreState(plugin, state[name], name, instance) *)
restoreState(state, n, inst, outcome) ==
    IF inst # NoInstance /\ state[n] # NoEntry
    THEN safeRestoreStateCalls(n, inst, state[n], outcome)
    ELSE <<>>

RestoreStep(outcome) ==
    /\ pc = "restore"
    /\ AtPlugin
    /\ outcome # Ok => MayFail /\ saved.state[Current] # NoEntry
    /\ calls' = calls \o restoreState(saved.state, Current, activePlugins[Current], outcome)
    /\ faults' = IF outcome = Ok THEN faults ELSE faults + 1
    /\ NextPlugin
    /\ UNCHANGED <<cfgPlugins, enabledPlugins, orderedPlugins, activePlugins,
                   nextThink, phase, saved, cycles, got>>
    /\ UNCHANGED busVars
    /\ UNCHANGED heap

(* The restore pass is over; `state` is not read again *)
RestoreEnd ==
    /\ pc = "restore"
    /\ PassOver
    /\ NextPass("init")
    /\ calls' = Forget(calls)
    /\ saved' = NoState
    /\ got' = NothingGot
    /\ UNCHANGED <<cfgPlugins, enabledPlugins, orderedPlugins, activePlugins,
                   nextThink, phase, cycles, faults>>
    /\ UNCHANGED busVars
    /\ UNCHANGED heap

(* plugin.init(); its exception leaves `after` *)
InitStep(outcome) ==
    /\ pc = "init"
    /\ AtPlugin
    /\ IF activePlugins[Current] = NoInstance
       THEN NextPlugin /\ UNCHANGED <<calls, phase>>
       ELSE /\ calls' = Append(calls, Call("init", Current, activePlugins[Current], outcome))
            /\ IF outcome = Throws
               THEN Throw(Current) /\ phase' = "running"
               ELSE NextPlugin /\ UNCHANGED phase
    /\ UNCHANGED <<cfgPlugins, enabledPlugins, orderedPlugins, activePlugins,
                   nextThink, saved, cycles, got, faults>>
    /\ UNCHANGED busVars
    /\ UNCHANGED heap

(* Variant: the onHotReloadComplete pass runs whatever the player count *)
InitEndWhateverPlayers(connected) ==
    /\ pc = "init"
    /\ PassOver
    /\ calls' = calls \o setupMainThinkLoop
                \o <<Call("GetPlayerController", 0, 0,
                          IF connected THEN <<"players">> ELSE <<"no players">>)>>
    /\ nextThink' = "scheduled"
    /\ NextPass("onHotReloadComplete")
    /\ UNCHANGED <<cfgPlugins, enabledPlugins, orderedPlugins, activePlugins,
                   phase, saved, cycles, got, faults>>
    /\ UNCHANGED busVars
    /\ UNCHANGED heap

(* setupMainThinkLoop(), then the count of connected players *)
InitEnd(connected) ==
    /\ pc = "init"
    /\ PassOver
    /\ calls' = calls \o setupMainThinkLoop
                \o <<Call("GetPlayerController", 0, 0,
                          IF connected THEN <<"players">> ELSE <<"no players">>)>>
    /\ nextThink' = "scheduled"
    /\ IF connected
       THEN NextPass("onHotReloadComplete") /\ UNCHANGED phase
       ELSE Return(Undefined) /\ phase' = "running"
    /\ UNCHANGED <<cfgPlugins, enabledPlugins, orderedPlugins, activePlugins,
                   saved, cycles, got, faults>>
    /\ UNCHANGED busVars
    /\ UNCHANGED heap

(* Variant: the exception of onHotReloadComplete() leaves `after` *)
HotReloadCompleteStepUnguarded(outcome) ==
    /\ pc = "onHotReloadComplete"
    /\ AtPlugin
    /\ outcome = Throws => MayFail
    /\ calls' = calls \o safeHotReloadCompleteCalls(Current, activePlugins[Current], outcome)
    /\ faults' = IF outcome = Throws THEN faults + 1 ELSE faults
    /\ IF outcome = Throws
       THEN Throw(Current) /\ phase' = "running"
       ELSE NextPlugin /\ UNCHANGED phase
    /\ UNCHANGED <<cfgPlugins, enabledPlugins, orderedPlugins, activePlugins,
                   nextThink, saved, cycles, got>>
    /\ UNCHANGED busVars
    /\ UNCHANGED heap

HotReloadCompleteStep(outcome) ==
    /\ pc = "onHotReloadComplete"
    /\ AtPlugin
    /\ outcome = Throws => MayFail
    /\ calls' = calls \o (IF activePlugins[Current] = NoInstance THEN <<>>
                          ELSE safeHotReloadCompleteCalls(Current, activePlugins[Current],
                                                          outcome))
    /\ faults' = IF outcome = Throws THEN faults + 1 ELSE faults
    /\ NextPlugin
    /\ UNCHANGED <<cfgPlugins, enabledPlugins, orderedPlugins, activePlugins,
                   nextThink, phase, saved, cycles, got>>
    /\ UNCHANGED busVars
    /\ UNCHANGED heap

HotReloadCompleteEnd ==
    /\ pc = "onHotReloadComplete"
    /\ PassOver
    /\ phase' = "running"
    /\ Return(Undefined)
    /\ UNCHANGED <<cfgPlugins, enabledPlugins, orderedPlugins, activePlugins,
                   nextThink, saved, cycles, got, calls, faults>>
    /\ UNCHANGED busVars
    /\ UNCHANGED heap

----------------------------------------------------------------------------
(* Specifications *)

Descriptors(priorities) ==
    {d \in [Names -> [name : Names, priority : priorities]] :
        \A n \in Names : d[n].name = n}

(* cfg.enabledPlugins: absent, empty, or all the names but one *)
EnabledChoices ==
    {NoEnabledList, EnabledList({})} \cup {EnabledList(Names \ {n}) : n \in Names}

Constructed ==
    /\ orderedPlugins = <<>>
    /\ activePlugins = [n \in Names |-> NoInstance]
    /\ nextThink = "none"
    /\ phase = "constructed"
    /\ saved = NoState
    /\ cycles = 0
    /\ got = NothingGot
    /\ handler = "none"
    /\ pc = "idle"
    /\ idx = 1
    /\ calls = <<>>
    /\ faults = 0
    /\ result = Returned(Undefined)
    /\ subscriptions = NoSubscriptions
    /\ nextId = 1
    /\ frames = <<>>
    /\ created = 0
    /\ emits = 0
    /\ invoked = [u \in 1..MaxSubs |-> 0]

(* Boot and event dispatch, over every configuration *)
Init ==
    /\ cfgPlugins \in Descriptors(PriorityValues)
    /\ enabledPlugins \in EnabledChoices
    /\ Constructed
    /\ heap = NoHeap

Boot ==
    \/ Initialize
    \/ \E outcome \in {Ok, Throws} : InitializeStep(outcome)
    \/ InitializeEnd

Events ==
    \/ OnEvent
    \/ OnThink
    \/ \E outcome \in {Absent, Ok, Value, Throws} : DispatchStep(outcome)
    \/ DispatchEnd
    \/ OnBeforePlayerDamage
    \/ \E outcome \in DamageOutcomes : DamageStep(outcome)
    \/ DamageEnd

Next == Boot \/ Events

Spec == Init /\ [][Next]_vars

(* The checkpoint cycle; a reload may come with an edited allow-list: none, *)
(* or one that leaves a plugin out                                          *)
ReloadChoices == {NoEnabledList} \cup {EnabledList(Names \ {n}) : n \in Names}

(* The registrations the cycle is followed from: all without priority, so    *)
(* that the plugins are visited as registered, or the second one with        *)
(* priority 10, so that it is visited before the first                       *)
ReloadDescriptors ==
    {d \in Descriptors({NoPriority, 10}) :
        \A n \in Names : n # 2 => d[n].priority = NoPriority}

InitReload ==
    /\ cfgPlugins \in ReloadDescriptors
    /\ enabledPlugins = NoEnabledList
    /\ Constructed
    /\ heap = NoHeap

SaveHalf ==
    \/ OnScriptReloadBefore
    \/ \E outcome \in {Ok, Throws} : \E hostGoesOn \in BOOLEAN :
          CleanupStep(outcome, hostGoesOn)
    \/ CleanupEnd
    \/ \E outcome \in GetStateOutcomes : GetStateStep(outcome)
    \/ BeforeEnd

RebuildHalf ==
    \/ OnScriptReloadAfter
    \/ CreateStep
    \/ CreateEnd
    \/ \E outcome \in {Ok, Throws, Absent} : RestoreStep(outcome)
    \/ RestoreEnd
    \/ \E outcome \in {Ok, Throws} : InitStep(outcome)
    \/ \E connected \in BOOLEAN : InitEnd(connected)
    \/ \E outcome \in {Absent, Ok, Throws} : HotReloadCompleteStep(outcome)
    \/ HotReloadCompleteEnd

NextReload ==
    \/ Boot
    \/ Events
    \/ SaveHalf
    \/ \E enabled \in ReloadChoices : Reconfigure(enabled)
    \/ RebuildHalf

SpecReload == InitReload /\ [][NextReload]_vars

(* The checkpoint helpers on their own, over every state value *)
InitUtils ==
    /\ cfgPlugins \in Descriptors({NoPriority})
    /\ enabledPlugins = NoEnabledList
    /\ Constructed
    /\ heap \in Heaps

NextUtils ==
    \/ \E behaviour \in {Ok, Throws, Absent} : SafeGetState(behaviour)
    \/ \E outcome \in {Ok, Throws, Absent} : SafeRestoreState(outcome)
    \/ ValidateStateShape

SpecUtils == InitUtils /\ [][NextUtils]_vars

(* The event bus on its own: the script and the handlers call it *)
InitBus ==
    /\ cfgPlugins \in Descriptors({NoPriority})
    /\ enabledPlugins = NoEnabledList
    /\ Constructed
    /\ heap = NoHeap

NextBus ==
    \/ \E e \in EventNames : \E once \in BOOLEAN : On(e, once)
    \/ \E id \in 1..MaxSubs : Off(id)
    \/ \E e \in EventNames : Clear(e)
    \/ ClearAll
    \/ \E e \in EventNames : Emit(e)
    \/ \E e \in EventNames : EmitNoSubscribers(e)
    \/ EmitNext
    \/ HandlerReturns
    \/ HandlerThrows
    \/ EmitLoopEnd
    \/ EmitEnd

SpecBus == InitBus /\ [][NextBus]_vars

(* The event bus called by the script only, between emits: the handlers     *)
(* call no method of the bus                                                *)
NextBusScript ==
    \/ \E e \in EventNames : \E once \in BOOLEAN : frames = <<>> /\ On(e, once)
    \/ \E id \in 1..MaxSubs : frames = <<>> /\ Off(id)
    \/ \E e \in EventNames : frames = <<>> /\ Clear(e)
    \/ frames = <<>> /\ ClearAll
    \/ \E e \in EventNames : frames = <<>> /\ Emit(e)
    \/ \E e \in EventNames : frames = <<>> /\ EmitNoSubscribers(e)
    \/ EmitNext
    \/ HandlerReturns
    \/ HandlerThrows
    \/ EmitLoopEnd
    \/ EmitEnd

SpecBusScript == InitBus /\ [][NextBusScript]_vars

(* The checkpoint cycle with plugins that subscribe to the bus: the hook (or *)
(* factory) the handler is calling calls eventBus.on                         *)
HookSubscribes(e) ==
    /\ pc # "idle"
    /\ AtPlugin
    /\ On(e, FALSE)

NextBusReload ==
    \/ Boot
    \/ SaveHalf
    \/ RebuildHalf
    \/ \E e \in EventNames : HookSubscribes(e)

SpecBusReload == InitBus /\ [][NextBusReload]_vars

----------------------------------------------------------------------------
(* What the properties below read from the log and the configuration *)

PluginCalls == SelectSeq(calls, LAMBDA e : e.name # 0)
CallsOf(op) == SelectSeq(calls, LAMBDA e : e.op = op)
HookCalls == SelectSeq(calls, LAMBDA e : e.op \in {"onEvent", "onThink", "onBeforePlayerDamage"})
CalledNames(log) == [i \in DOMAIN log |-> log[i].name]

Registered == {cfgPlugins[i].name : i \in DOMAIN cfgPlugins}
Active == {n \in Names : activePlugins[n] # NoInstance}
RegistrationIndex(n) == CHOOSE i \in DOMAIN cfgPlugins : cfgPlugins[i].name = n
DeclaredPriority(n) ==
    LET p == cfgPlugins[RegistrationIndex(n)].priority
    IN IF p = NoPriority THEN 100 ELSE p

(* Plugin a comes before plugin b: lower priority value, or the same value   *)
(* and registered earlier                                                    *)
VisitedBefore(a, b) ==
    \/ DeclaredPriority(a) < DeclaredPriority(b)
    \/ DeclaredPriority(a) = DeclaredPriority(b) /\ RegistrationIndex(a) < RegistrationIndex(b)

(* VisitedBefore is a strict total order, so it is enough to compare         *)
(* neighbours                                                                *)
InVisitOrder(names) ==
    \A i \in DOMAIN names : i < Len(names) => VisitedBefore(names[i], names[i + 1])

Ended == pc = "idle"
HasReturned == pc = "idle" /\ result.kind = "returned"

----------------------------------------------------------------------------
(* C1: every fan-out dispatch, onThink included, calls the hook of the       *)
(* active plugins in ascending priority order, a missing priority counting   *)
(* as 100, and plugins of equal priority in their registration order.        *)
DispatchInPriorityOrder ==
    handler \in {"event", "think"} =>
        LET log == HookCalls IN
        /\ InVisitOrder(CalledNames(log))
        /\ \A i \in DOMAIN log :
              /\ log[i].op = HookOf(handler)
              /\ log[i].name \in Active
              /\ log[i].inst = activePlugins[log[i].name]

(* A think tick that called, in this order, a plugin without priority, one   *)
(* registered after it with priority 100 and one registered first with 200   *)
DispatchInPriorityOrderWitness ==
    /\ handler = "think"
    /\ HasReturned
    /\ cfgPlugins[1].priority = 200
    /\ cfgPlugins[2].priority = NoPriority
    /\ cfgPlugins[3].priority = 100
    /\ Len(HookCalls) = NumPlugins
    /\ \E i, j, k \in DOMAIN HookCalls :
          /\ i < j /\ j < k
          /\ HookCalls[i].name = 2 /\ HookCalls[j].name = 3 /\ HookCalls[k].name = 1

----------------------------------------------------------------------------
(* C2: with a non-empty enabledPlugins list exactly the registered plugins   *)
(* named in it are instantiated and dispatched to, in the relative order     *)
(* they have without the filter; with no list or an empty one every          *)
(* registered plugin is active.                                              *)
ExpectedActive ==
    IF enabledPlugins.defined /\ enabledPlugins.names # {}
    THEN Registered \cap enabledPlugins.names
    ELSE Registered

UnfilteredOrder == NamesOf(getOrderedPlugins(cfgPlugins, NoEnabledList))
ExpectedOrder == SelectSeq(UnfilteredOrder, LAMBDA n : n \in ExpectedActive)

EnabledListDecidesActive ==
    LET expected == ExpectedOrder
        called == CalledNames(HookCalls)
    IN /\ phase = "running" =>
             /\ Active = ExpectedActive
             /\ NamesOf(orderedPlugins) = expected
       /\ (handler = "initialize" /\ HasReturned) =>
             CalledNames(CallsOf("create")) = expected
       /\ handler \in {"event", "think", "damage"} =>
             called = SelectSeq(expected, LAMBDA n : n \in Range(called))

(* P1 and P3 enabled out of P1, P2, P3 with P2 ordered between them: an      *)
(* event was dispatched to P1 then P3 only                                   *)
EnabledListDecidesActiveWitness ==
    /\ enabledPlugins = EnabledList({1, 3})
    /\ cfgPlugins[1].priority = 10
    /\ cfgPlugins[2].priority = NoPriority
    /\ cfgPlugins[3].priority = 200
    /\ handler = "event"
    /\ HasReturned
    /\ CalledNames(HookCalls) = <<1, 3>>
    /\ Active = {1, 3}

----------------------------------------------------------------------------
(* C3: the damage override asks the plugins in priority order and ends at    *)
(* the first decision: that decision is the result and no later plugin's     *)
(* hook is called.                                                           *)
IsDecision(v) == Len(v) = 2 /\ v[1] = "decision"

FirstDecisionWins ==
    handler = "damage" =>
        LET log == HookCalls IN
        /\ InVisitOrder(CalledNames(log))
        /\ \A i \in DOMAIN log :
              /\ log[i].op = "onBeforePlayerDamage"
              /\ i < Len(log) => log[i].val = Undefined
        /\ (log # <<>> /\ IsDecision(log[Len(log)].val)) =>
              /\ HasReturned
              /\ result.value = log[Len(log)].val
              /\ result.value = <<"decision", log[Len(log)].name>>
        /\ HasReturned =>
              \/ log # <<>> /\ result.value = log[Len(log)].val
              \/ result.value = Undefined /\ \A i \in DOMAIN log : log[i].val = Undefined

(* The first plugin had no opinion, the second decided, and the remaining    *)
(* active plugin was not asked                                               *)
FirstDecisionWinsWitness ==
    /\ handler = "damage"
    /\ HasReturned
    /\ Active = Names
    /\ Len(calls) = 2
    /\ calls[1].val = Undefined
    /\ IsDecision(result.value)
    /\ result.value[2] = calls[2].name
    /\ idx < Len(orderedPlugins)

----------------------------------------------------------------------------
(* C4: on fresh boot restoreState is never called, and for each descriptor   *)
(* in priority order the instance is created, its init() is called once and  *)
(* it is registered, before the factory of the next descriptor is called.    *)
FreshBootCreatesInitsRegisters ==
    handler = "initialize" =>
        /\ CallsOf("safeRestoreState") = <<>>
        /\ CallsOf("restoreState") = <<>>
        /\ InVisitOrder(CalledNames(CallsOf("create")))
        /\ LET log == PluginCalls IN
           \A i \in DOMAIN log :
              /\ i % 3 = 1 => log[i].op = "create"
              /\ i % 3 = 2 =>
                    /\ log[i].op = "init"
                    /\ log[i].name = log[i - 1].name
                    /\ log[i].inst = log[i - 1].inst
              /\ i % 3 = 0 =>
                    /\ log[i].op = "set"
                    /\ log[i].name = log[i - 1].name
                    /\ log[i].inst = log[i - 1].inst
                    /\ log[i - 1].val = Ok
        /\ HasReturned =>
              /\ CalledNames(CallsOf("init")) = NamesOf(orderedPlugins)
              /\ CalledNames(CallsOf("set")) = NamesOf(orderedPlugins)

(* A boot that is over, of NumPlugins plugins, the second registered first   *)
FreshBootCreatesInitsRegistersWitness ==
    /\ handler = "initialize"
    /\ HasReturned
    /\ cfgPlugins[1].priority = NoPriority
    /\ cfgPlugins[2].priority = 10
    /\ Len(PluginCalls) = 3 * NumPlugins
    /\ PluginCalls[1].name = 2
    /\ PluginCalls[4].name = 1

----------------------------------------------------------------------------
(* C5: on rebuild all instances are created (and registered) without init(), *)
(* then every instance with a saved state has its restoreState attempt, and  *)
(* only then is init() called on the instances in priority order: no         *)
(* restoreState follows an init().                                           *)
PassRank(e) ==
    IF e.op \in {"create", "set"} THEN 1
    ELSE IF e.op = "safeRestoreState" THEN 2
    ELSE IF e.op = "init" THEN 3
    ELSE 4

RebuildCreatesRestoresThenInits ==
    handler = "after" =>
        LET log == PluginCalls
            order == NamesOf(orderedPlugins)
            inits == CalledNames(CallsOf("init"))
            last == IF log = <<>> THEN 1 ELSE PassRank(log[Len(log)])
        IN
        \* the passes follow one another, so the last call bounds them all
        /\ \A i \in DOMAIN log :
              i < Len(log) => PassRank(log[i]) <= PassRank(log[i + 1])
        /\ pc = "create" => last = 1
        /\ pc = "restore" => last <= 2
        /\ pc # "create" =>
              /\ CalledNames(CallsOf("create")) = order
              /\ CalledNames(CallsOf("set")) = order
              /\ Active = Range(order)
        /\ (pc = "restore" /\ PassOver) =>
              \A n \in Active :
                  saved.state[n] # NoEntry =>
                      \E i \in DOMAIN calls :
                          calls[i].op = "safeRestoreState" /\ calls[i].name = n
        /\ InVisitOrder(inits)
        /\ HasReturned => inits = order

(* A rebuild that is over in which every plugin was restored, then inited    *)
RebuildCreatesRestoresThenInitsWitness ==
    /\ handler = "after"
    /\ HasReturned
    /\ Len(CallsOf("create")) = NumPlugins
    /\ Len(SelectSeq(calls, LAMBDA e : e.op = "safeRestoreState" /\ e.val = Ok)) = NumPlugins
    /\ Len(CallsOf("init")) = NumPlugins

----------------------------------------------------------------------------
(* C6: the value restoreState receives in the rebuild half is the object     *)
(* the getState of the plugin of that name returned in the save half of the  *)
(* same cycle, and it is given to no plugin of another name.                 *)
RestoreStateCalled == SelectSeq(calls, LAMBDA e : e.op = "safeRestoreState" /\ e.val # Absent)

RestoreGetsWhatGetStateReturned ==
    (handler = "after" /\ pc = "restore") =>
        /\ LET log == RestoreStateCalled IN
           \A i \in DOMAIN log :
              /\ got[log[i].name] # NoObject => log[i].arg = got[log[i].name]
              /\ \A m \in Names :
                    (got[m] # NoObject /\ log[i].arg = got[m]) => m = log[i].name
        /\ PassOver =>
              \A n \in Active :
                  got[n] # NoObject =>
                      \E i \in DOMAIN calls :
                          /\ calls[i].op = "safeRestoreState"
                          /\ calls[i].name = n
                          /\ calls[i].arg = got[n]

(* Every plugin returned an object from getState and has received it back    *)
RestoreGetsWhatGetStateReturnedWitness ==
    /\ handler = "after"
    /\ pc = "restore"
    /\ PassOver
    /\ Len(RestoreStateCalled) = NumPlugins
    /\ \A i \in DOMAIN RestoreStateCalled :
          /\ RestoreStateCalled[i].val = Ok
          /\ RestoreStateCalled[i].arg = StateOf(RestoreStateCalled[i].name, cycles)

----------------------------------------------------------------------------
(* C7, as stated: a plugin whose getState throws in the save half has the    *)
(* empty object under its name in the checkpoint, and the states of the      *)
(* other plugins are captured under their names.                             *)
CapturedOthers ==
    \A i \in DOMAIN calls :
        (calls[i].op = "safeGetState" /\ calls[i].val = StateOf(calls[i].name, calls[i].inst))
            => saved.state[calls[i].name] = calls[i].val

ThrowingGetStateContributesEmpty ==
    (handler = "before" /\ HasReturned) =>
        /\ \A i \in DOMAIN calls :
              (calls[i].op = "safeGetState" /\ calls[i].val = Throws)
                  => saved.state[calls[i].name] = EmptyState
        /\ CapturedOthers

(* C7, amended: a plugin whose getState throws in the save half has no entry *)
(* under its name in the checkpoint (the {} safeGetState substitutes is      *)
(* stored only on success), and the states of the other plugins are          *)
(* captured under their names.                                               *)
ThrowingGetStateContributesNothing ==
    (handler = "before" /\ HasReturned) =>
        /\ saved.defined
        /\ \A i \in DOMAIN calls :
              (calls[i].op = "safeGetState" /\ calls[i].val = Throws)
                  => saved.state[calls[i].name] = NoEntry
        /\ CapturedOthers

(* The getState of the first plugin threw and the others were captured       *)
ThrowingGetStateContributesNothingWitness ==
    /\ handler = "before"
    /\ HasReturned
    /\ Len(CallsOf("safeGetState")) = NumPlugins
    /\ CallsOf("safeGetState")[1].val = Throws
    /\ \A i \in 2..NumPlugins :
          LET e == CallsOf("safeGetState")[i]
          IN e.val = StateOf(e.name, e.inst) /\ saved.state[e.name] = e.val

----------------------------------------------------------------------------
(* C8: a restoreState that throws does not stop the restore pass (every      *)
(* other plugin with saved state still has its restoreState attempt), and    *)
(* init() is then called on every plugin, the one that threw included.       *)
RestoreThrowKeepsRebuildGoing ==
    handler = "after" =>
        /\ (pc = "restore" /\ PassOver) =>
              \A n \in Active :
                  saved.state[n] # NoEntry =>
                      \E i \in DOMAIN calls :
                          calls[i].op = "safeRestoreState" /\ calls[i].name = n
        /\ (Ended /\ \E i \in DOMAIN calls :
                        calls[i].op = "safeRestoreState" /\ calls[i].val = Throws) =>
              \A n \in Active :
                  \E j \in DOMAIN calls : calls[j].op = "init" /\ calls[j].name = n

----------------------------------------------------------------------------
(* C9: in the save half an exception of one plugin's cleanup() or getState() *)
(* never prevents the state of the other plugins from being captured.        *)
FailedInSave(n) ==
    \E i \in DOMAIN calls : calls[i].name = n /\ calls[i].val = Throws

SaveFailureKeepsOthers ==
    (handler = "before" /\ Ended) =>
        \A n \in Active :
            ~FailedInSave(n) =>
                \E i \in DOMAIN calls :
                    /\ calls[i].op = "safeGetState"
                    /\ calls[i].name = n
                    /\ (calls[i].val = StateOf(n, activePlugins[n])
                           => saved.state[n] = calls[i].val)

----------------------------------------------------------------------------
(* C10: after a checkpoint cycle every registered instance was created by    *)
(* that cycle's rebuild: no instance of an earlier generation is registered  *)
(* or called.                                                                *)
RebuildRegistersOnlyNewInstances ==
    /\ \A n \in Names : activePlugins[n] \in {NoInstance, cycles + 1}
    /\ handler \in {"after", "event", "think", "damage"} =>
          \A i \in DOMAIN calls : calls[i].name # 0 => calls[i].inst = cycles + 1

(* An event after the first cycle, dispatched to NumPlugins instances of the *)
(* second generation                                                         *)
RebuildRegistersOnlyNewInstancesWitness ==
    /\ cycles = 1
    /\ handler = "event"
    /\ HasReturned
    /\ Len(HookCalls) = NumPlugins
    /\ \A i \in DOMAIN HookCalls : HookCalls[i].inst = 2

----------------------------------------------------------------------------
(* What the rebuild found when it counted the connected players *)
PlayersConnected ==
    \E i \in DOMAIN calls :
        calls[i].op = "GetPlayerController" /\ calls[i].val = <<"players">>

(* Every onHotReloadComplete in the log comes after the init() of every      *)
(* plugin has returned                                                       *)
AllInitsReturnedBefore(op) ==
    LET at == {i \in DOMAIN calls : calls[i].op = op}
    IN at # {} =>
          LET first == CHOOSE i \in at : \A k \in at : i <= k
              inits == {j \in DOMAIN calls : calls[j].op = "init"}
          IN /\ \A j \in inits : j < first /\ calls[j].val = Ok
             /\ Active \subseteq {calls[j].name : j \in inits}

HotReloadCompleteAfterAllInits == AllInitsReturnedBefore("safeHotReloadComplete")

(* How many times the hook of plugin n was taken *)
HotReloadCompleteCount(n) ==
    Cardinality({i \in DOMAIN calls :
                    calls[i].op = "safeHotReloadComplete" /\ calls[i].name = n})

(* C11, as stated: after a full checkpoint cycle every plugin has had its    *)
(* onHotReloadComplete hook taken exactly once (called, if it has the hook), *)
(* after the init() of every plugin has returned.                            *)
HotReloadCompleteOnceAlways ==
    (handler = "after" /\ HasReturned) =>
        /\ \A n \in Active : HotReloadCompleteCount(n) = 1
        /\ HotReloadCompleteAfterAllInits

(* C11, amended: after a full checkpoint cycle in which a player is          *)
(* connected, every plugin has had its onHotReloadComplete hook taken        *)
(* exactly once, after the init() of every plugin has returned; with no      *)
(* player connected the hook is called on no plugin.                         *)
HotReloadCompleteOnceIfPlayers ==
    handler = "after" =>
        /\ HotReloadCompleteAfterAllInits
        /\ \A n \in Names : HotReloadCompleteCount(n) <= 1
        /\ HasReturned =>
              LET expected == IF PlayersConnected THEN 1 ELSE 0
              IN \A n \in Active : HotReloadCompleteCount(n) = expected

(* A rebuild with players connected in which every plugin's hook was called  *)
HotReloadCompleteOnceIfPlayersWitness ==
    /\ handler = "after"
    /\ HasReturned
    /\ PlayersConnected
    /\ Active = Names
    /\ Len(SelectSeq(calls, LAMBDA e : e.op = "safeHotReloadComplete" /\ e.val = Ok)) = NumPlugins

----------------------------------------------------------------------------
(* C12: the save half stops the think loop, then clears the event bus, then  *)
(* calls cleanup() on every active plugin in priority order, and only after  *)
(* the last cleanup() has returned collects getState from every plugin in    *)
(* priority order.                                                           *)
ActiveInOrder == SelectSeq(NamesOf(orderedPlugins), LAMBDA n : n \in Active)

SaveHalfInOrder ==
    handler = "before" =>
        /\ Len(calls) >= 2
        /\ calls[1] = Call("SetNextThink", 0, 0, <<"never">>)
        /\ calls[2] = Call("clearAll", 0, 0, Ok)
        /\ nextThink = "none"
        /\ \A i \in DOMAIN calls :
              /\ i > 2 => calls[i].op \in {"cleanup", "safeGetState"}
              /\ (i > 2 /\ i < Len(calls) /\ calls[i].op = "safeGetState")
                    => calls[i + 1].op = "safeGetState"
        /\ InVisitOrder(CalledNames(CallsOf("cleanup")))
        /\ InVisitOrder(CalledNames(CallsOf("safeGetState")))
        /\ (pc = "getState" \/ CallsOf("safeGetState") # <<>>) =>
              /\ CalledNames(CallsOf("cleanup")) = ActiveInOrder
              /\ \A i \in DOMAIN calls : calls[i].op = "cleanup" => calls[i].val = Ok
        /\ HasReturned => CalledNames(CallsOf("safeGetState")) = ActiveInOrder

(* A save half that is over, of NumPlugins plugins, the second registered    *)
(* visited first                                                             *)
SaveHalfInOrderWitness ==
    /\ handler = "before"
    /\ HasReturned
    /\ cfgPlugins[1].priority = NoPriority
    /\ cfgPlugins[2].priority = 10
    /\ Len(calls) = 2 + 2 * NumPlugins
    /\ calls[3].op = "cleanup" /\ calls[3].name = 2
    /\ calls[4].op = "cleanup" /\ calls[4].name = 1
    /\ calls[3 + NumPlugins].op = "safeGetState" /\ calls[3 + NumPlugins].name = 2

----------------------------------------------------------------------------
(* C13: no think tick is dispatched while a checkpoint cycle is in progress: *)
(* from the start of the save half until the init() of every rebuilt         *)
(* instance has returned the think timer is off and no onThink is called,    *)
(* and the timer is set again only after the init pass.                      *)
InCycle == phase \in {"saving", "torn_down", "rebuilding"}

NoThinkDuringCycle ==
    /\ InCycle => handler \in {"before", "after"}
    /\ InCycle => \A i \in DOMAIN calls : calls[i].op # "onThink"
    /\ phase \in {"saving", "torn_down"} => nextThink = "none"
    /\ (phase = "rebuilding" /\ pc \in {"create", "restore", "init"}) => nextThink = "none"
    /\ handler = "think" => phase = "running"
    /\ handler = "after" =>
          /\ AllInitsReturnedBefore("SetThink")
          /\ AllInitsReturnedBefore("SetNextThink")

(* The rebuild has called every init() and has not yet set the timer *)
NoThinkDuringCycleWitness ==
    /\ handler = "after"
    /\ pc = "init"
    /\ PassOver
    /\ Len(CallsOf("init")) = NumPlugins
    /\ nextThink = "none"

----------------------------------------------------------------------------
(* C14: every checkpoint cycle that is started ends back in the running      *)
(* state with the think loop restarted, whatever the plugins' hooks do: the  *)
(* save half returns the checkpoint and leaves the script torn down, and the *)
(* rebuild half returns with the script running and a tick scheduled.        *)
CycleEndsRunning ==
    /\ (handler = "before" /\ Ended) =>
          /\ result.kind = "returned"
          /\ phase = "torn_down"
          /\ saved.defined
    /\ (handler = "after" /\ Ended) =>
          /\ result.kind = "returned"
          /\ phase = "running"
          /\ nextThink = "scheduled"

----------------------------------------------------------------------------
(* C15: event bus subscriptions never survive a checkpoint cycle: when the   *)
(* rebuild begins, and until the first init() of a new instance, the bus     *)
(* holds no subscription made before or during the save half of that cycle   *)
(* (none made by an instance of an earlier generation).                      *)
AllSubscriptions ==
    UNION {{subscriptions[e][k] : k \in DOMAIN subscriptions[e]} : e \in EventNames}

NoSubscriptionSurvivesCycle ==
    (handler = "after" /\ pc \in {"create", "restore"}) =>
        \A sub \in AllSubscriptions : sub.born > cycles

(* C16: a once subscription is delivered to by the first emit of its event   *)
(* and by no later one: once an emit that delivered to it has returned, it   *)
(* is no longer subscribed.                                                  *)
OnceGoneAfterFirstDelivery ==
    frames = <<>> =>
        \A sub \in AllSubscriptions : sub.once => invoked[sub.uid] = 0

(* The subscribers of an emit that nothing unsubscribed while it ran *)
KeptSubscribers(f) ==
    {k \in DOMAIN f.snapshot : f.snapshot[k].id \notin f.offed}

TimesDelivered(f, uid) ==
    Cardinality({k \in DOMAIN f.delivered : f.delivered[k] = uid})

(* The first emit, with its loop over and no emit inside it *)
FirstEmitLoopOver ==
    /\ emits = 1
    /\ Len(frames) = 1
    /\ Top.stage = "remove"

(* C17: a subscriber that throws does not block delivery: every subscriber   *)
(* registered after it (and not unsubscribed meanwhile) is still called by   *)
(* the same emit.                                                            *)
ThrowBlocksNobody ==
    FirstEmitLoopOver =>
        \A k \in DOMAIN Top.snapshot :
            Top.snapshot[k].uid \in Top.threw =>
                \A j \in KeptSubscribers(Top) :
                    j > k => TimesDelivered(Top, Top.snapshot[j].uid) >= 1

(* C18: unsubscribing (off) from inside a handler makes the emit in flight   *)
(* neither skip nor call twice any other subscriber that was subscribed      *)
(* when the emit started.                                                    *)
OffDuringEmitSkipsNobody ==
    FirstEmitLoopOver =>
        \A k \in KeptSubscribers(Top) :
            TimesDelivered(Top, Top.snapshot[k].uid) = 1

(* C19: a subscriber added from inside a handler is not called by the emit   *)
(* already in flight: an emit calls only those subscribed when it started.   *)
NewSubscriberWaitsForNextEmit ==
    \A f \in DOMAIN frames :
        \A d \in DOMAIN frames[f].delivered :
            \E k \in DOMAIN frames[f].snapshot :
                frames[f].snapshot[k].uid = frames[f].delivered[d]

(* C20: the handler of a once subscription is invoked at most once, emits    *)
(* issued from inside a handler of the same event included.                  *)
OnceInvokedAtMostOnce ==
    \A f \in DOMAIN frames :
        (frames[f].stage = "handler" /\ frames[f].cur.once) =>
            invoked[frames[f].cur.uid] <= 1

----------------------------------------------------------------------------
(* C21: safeGetState never throws and returns, case by case: no getState    *)
(* method, failure with {}; null or undefined returned, success with {}; a  *)
(* non-object returned, failure with {}; an exception, failure with {} and  *)
(* the error message; an object returned, success with that object.         *)
SafeGetStateByCase ==
    handler = "safeGetState" =>
        /\ result.kind = "returned"
        /\ LET r == result.value
               returned == calls[1].val
           IN /\ returned = Absent =>
                    ~r.success /\ r.data = EmptyState
              /\ returned = Null =>
                    r.success /\ r.data = EmptyState /\ r.error = NoError
              /\ returned = NonObject =>
                    ~r.success /\ r.data = EmptyState
              /\ returned = Throws =>
                    ~r.success /\ r.data = EmptyState /\ r.error = <<"error", "thrown">>
              /\ returned \notin {Absent, Null, NonObject, Throws} =>
                    /\ IsObject(heap.state)
                    /\ returned = StateOf(1, 1)
                    /\ r.success /\ r.data = returned /\ r.error = NoError

(* getState returned null and safeGetState reported success with {} *)
SafeGetStateByCaseWitness ==
    /\ handler = "safeGetState"
    /\ calls[1].val = Null
    /\ result.value.success
    /\ result.value.data = EmptyState

----------------------------------------------------------------------------
(* C22: safeRestoreState never throws; given a state that is not null and a *)
(* plugin with a restoreState method it calls restoreState(state) exactly   *)
(* once, whether or not validateStateShape reported violations, and it      *)
(* returns true exactly when restoreState was called and returned.          *)
RestoreStateCalls == SelectSeq(calls, LAMBDA e : e.op = "restoreState")

SafeRestoreStateCallsOnce ==
    handler = "safeRestoreState" =>
        LET rs == RestoreStateCalls
            hasMethodAndState == heap.state \notin {Null, Undefined} /\ calls[1].val # Absent
        IN /\ result.kind = "returned"
           /\ hasMethodAndState =>
                 /\ Len(rs) = 1
                 /\ rs[1].arg = heap.state
                 /\ rs[1].val = calls[1].val
                 /\ calls[Len(calls)] = rs[1]
           /\ ~hasMethodAndState => Len(calls) = 1
           /\ result.value = <<TRUE>> <=> (Len(rs) = 1 /\ rs[1].val = Ok)
           /\ result.value \in {<<TRUE>>, <<FALSE>>}

(* A state with a function in it was reported and restored all the same *)
SafeRestoreStateCallsOnceWitness ==
    /\ handler = "safeRestoreState"
    /\ ~validateStateShape(heap).valid
    /\ Len(calls) = 3
    /\ calls[2].op = "Msg"
    /\ calls[3].op = "restoreState"
    /\ calls[3].val = Ok
    /\ result.value = <<TRUE>>

----------------------------------------------------------------------------
(* C23: validateStateShape returns valid = false whenever the state holds,  *)
(* reachable through properties or elements, a function, a reference cycle  *)
(* or an object with an IsValid method; every issue carries the path at     *)
(* which it was met, and the diagnostic holds them all.                     *)
Successors(h, k) == {j \in Nodes : Ref(j) \in Range(h.nodes[k].fields)}

RECURSIVE ReachableFrom(_, _)
ReachableFrom(h, S) ==
    LET T == S \cup UNION {Successors(h, k) : k \in S}
    IN IF T = S THEN S ELSE ReachableFrom(h, T)

Reachable(h) == IF IsObject(h.state) THEN ReachableFrom(h, {h.state[2]}) ELSE {}

ContainsFunction(h) == \E k \in Reachable(h) : Fn \in Range(h.nodes[k].fields)
ContainsEntity(h) == \E k \in Reachable(h) : h.nodes[k].kind = "entity"
ContainsCycle(h) == \E k \in Reachable(h) : k \in ReachableFrom(h, Successors(h, k))

Nowhere == <<"nowhere">>

(* The slot of a node a path step names, 0 if it names none *)
SlotNamed(node, step) ==
    LET names == IF node.kind = "object" /\ step[1] = "." THEN Keys
                 ELSE IF node.kind = "array" /\ step[1] = "[" THEN Indices
                 ELSE <<>>
    IN IF \E i \in DOMAIN names : names[i] = step[2]
       THEN CHOOSE i \in DOMAIN names : names[i] = step[2]
       ELSE 0

(* The value the first n steps of a path lead to *)
RECURSIVE Resolve(_, _, _)
Resolve(h, path, n) ==
    IF n = 1 THEN h.state
    ELSE LET parent == Resolve(h, path, n - 1)
         IN IF ~IsObject(parent) THEN Nowhere
            ELSE LET i == SlotNamed(h.nodes[parent[2]], path[n])
                 IN IF i = 0 THEN Nowhere ELSE h.nodes[parent[2]].fields[i]

ValueAt(h, path) == Resolve(h, path, Len(path))

(* The issue is at the path it carries *)
IssueAtItsPath(h, issue) ==
    LET value == ValueAt(h, issue.path)
    IN /\ issue.path[1] = "state"
       /\ issue.kind = "Function" => value = Fn
       /\ issue.kind = "Entity reference" =>
             IsObject(value) /\ h.nodes[value[2]].kind = "entity"
       /\ issue.kind = "Circular reference" =>
             IsObject(value) /\ value[2] \in Reachable(h)
       /\ issue.kind \in {"Function", "Entity reference", "Circular reference"}

ValidateFlagsViolations ==
    (handler = "validateStateShape" /\ IsObject(heap.state)) =>
        LET v == result.value IN
        /\ (ContainsFunction(heap) \/ ContainsCycle(heap) \/ ContainsEntity(heap)) => ~v.valid
        /\ v.valid <=> v.error = <<>>
        /\ \A i \in DOMAIN v.error : IssueAtItsPath(heap, v.error[i])
        \* every function there is to find has its issue
        /\ \A k \in Reachable(heap) : \A f \in DOMAIN heap.nodes[k].fields :
              heap.nodes[k].fields[f] = Fn =>
                  \E i \in DOMAIN v.error :
                      /\ v.error[i].kind = "Function"
                      /\ Len(v.error[i].path) > 1
                      /\ Resolve(heap, v.error[i].path, Len(v.error[i].path) - 1) = Ref(k)
                      /\ SlotNamed(heap.nodes[k], v.error[i].path[Len(v.error[i].path)]) = f

(* A function found two levels down, in an array held by the state object,  *)
(* together with a second issue                                             *)
ValidateFlagsViolationsWitness ==
    /\ handler = "validateStateShape"
    /\ IsObject(heap.state)
    /\ ~result.value.valid
    /\ Len(result.value.error) >= 2
    /\ \E i \in DOMAIN result.value.error :
          result.value.error[i] = Issue("Function", <<"state", <<".", "b">>, <<"[", "1">>>>)

----------------------------------------------------------------------------
(* C24: on rebuild the restore of a plugin is attempted (safeRestoreState,  *)
(* which calls its restoreState) if and only if the checkpoint has an entry *)
(* under its name and the plugin is in the current ordered list: a plugin   *)
(* without entry gets no restoreState, and an entry whose name matches no   *)
(* current plugin is ignored without error.                                 *)
RestoreAttempts == SelectSeq(calls, LAMBDA e : e.op = "safeRestoreState")
CurrentNames == Range(NamesOf(orderedPlugins))

RestoreIffEntryAndCurrent ==
    (handler = "after" /\ pc = "restore") =>
        LET log == RestoreAttempts IN
        /\ result.kind = "pending"
        /\ \A i \in DOMAIN log :
              /\ saved.state[log[i].name] # NoEntry
              /\ log[i].arg = saved.state[log[i].name]
              /\ log[i].name \in CurrentNames
              /\ \A j \in DOMAIN log : log[j].name = log[i].name => j = i
        /\ PassOver =>
              \A n \in Names :
                  (saved.state[n] # NoEntry /\ n \in CurrentNames)
                      => \E i \in DOMAIN log : log[i].name = n

(* The restore pass is over: the entry of a plugin no longer in the list    *)
(* was ignored, a plugin without entry was passed over, another restored    *)
RestoreIffEntryAndCurrentWitness ==
    /\ handler = "after"
    /\ pc = "restore"
    /\ PassOver
    /\ \E n \in Names : saved.state[n] # NoEntry /\ n \notin CurrentNames
    /\ \E n \in CurrentNames : saved.state[n] = NoEntry
    /\ \E i \in DOMAIN calls : calls[i].op = "safeRestoreState" /\ calls[i].val = Ok

----------------------------------------------------------------------------
(* C25: the fan-out dispatch is not fault-isolated: when a hook throws, the *)
(* exception leaves the handler for the host, no plugin ordered after the   *)
(* thrower is called for that event, and those ordered before it have been *)
(* visited.                                                                 *)
FirstNames(k) == NamesOf(SubSeq(orderedPlugins, 1, k))

ThrowAbortsDispatch ==
    handler \in {"event", "think"} =>
        LET log == PluginCalls IN
        /\ \A i \in DOMAIN log :
              log[i].val = Throws =>
                  /\ i = Len(log)
                  /\ Ended
                  /\ result = Threw(log[i].name)
                  /\ AtPlugin
                  /\ Current = log[i].name
                  /\ CalledNames(log) = FirstNames(idx)
        /\ result.kind = "threw" => (log # <<>> /\ log[Len(log)].val = Throws)

(* The hook of the second of three plugins threw: the third was not called *)
ThrowAbortsDispatchWitness ==
    /\ handler = "event"
    /\ Ended
    /\ result.kind = "threw"
    /\ Len(orderedPlugins) = NumPlugins
    /\ Len(HookCalls) = 2
    /\ HookCalls[1].val = Ok
    /\ HookCalls[2].val = Throws

----------------------------------------------------------------------------
(* C26: the think loop has at most one tick pending or in flight: each tick *)
(* dispatches onThink once to the plugins and schedules exactly one next    *)
(* tick, and no tick is pending while the dispatch of one is running.       *)
NextThinkCalls == SelectSeq(calls, LAMBDA e : e.op = "SetNextThink")

EachTickSchedulesOneNext ==
    handler = "think" =>
        /\ ~Ended => nextThink = "none" /\ NextThinkCalls = <<>>
        /\ \A i, j \in DOMAIN HookCalls : HookCalls[i].name = HookCalls[j].name => i = j
        /\ Ended => nextThink = "scheduled" /\ Len(NextThinkCalls) = 1

----------------------------------------------------------------------------
(* C27: the fan-out dispatch calls the hook exactly once on every active    *)
(* plugin that implements it, calls nothing on a plugin that does not, and  *)
(* goes on to the next plugin whatever value a hook returns.                *)
FanOutCallsEachImplementerOnce ==
    handler \in {"event", "think"} =>
        LET log == PluginCalls
            visited == IF pc = "dispatch" THEN idx - 1
                       ELSE IF result.kind = "threw" THEN idx
                       ELSE Len(orderedPlugins)
        IN /\ CalledNames(log) = FirstNames(visited)
           /\ \A i \in DOMAIN log :
                 /\ log[i].inst = activePlugins[log[i].name]
                 /\ log[i].inst # NoInstance
                 /\ log[i].op \in {HookOf(handler), "noHook"}
                 /\ log[i].op = "noHook" <=> log[i].val = Absent
                 /\ (log[i].val \in {Ok, Value} /\ i = Len(log) /\ Ended) => HasReturned
           /\ HasReturned => Range(CalledNames(log)) = Active

(* An event went to three plugins: the first returned a value, the second   *)
(* has no such hook, the third was called all the same                      *)
FanOutCallsEachImplementerOnceWitness ==
    /\ handler = "event"
    /\ HasReturned
    /\ Len(PluginCalls) = NumPlugins
    /\ PluginCalls[1].val = Value
    /\ PluginCalls[2].op = "noHook"
    /\ PluginCalls[3].val = Ok

----------------------------------------------------------------------------
(* C30: in the damage-override dispatch, when every plugin that implements  *)
(* onBeforePlayerDamage returns no opinion, each of them is called exactly  *)
(* once in priority order and the dispatch returns no opinion.              *)
NoOpinionSoFar == \A i \in DOMAIN HookCalls : HookCalls[i].val = Undefined

NoOpinionLetsDamageThrough ==
    (handler = "damage" /\ NoOpinionSoFar) =>
        LET log == PluginCalls IN
        /\ CalledNames(log) = FirstNames(IF Ended THEN Len(orderedPlugins) ELSE idx - 1)
        /\ InVisitOrder(CalledNames(log))
        /\ \A i \in DOMAIN log :
              /\ log[i].op \in {"onBeforePlayerDamage", "noHook"}
              /\ log[i].op = "noHook" <=> log[i].val = Absent
        /\ Ended => (HasReturned /\ result.value = Undefined)

(* Three plugins were asked, two have the hook and both had no opinion *)
NoOpinionLetsDamageThroughWitness ==
    /\ handler = "damage"
    /\ HasReturned
    /\ result.value = Undefined
    /\ Len(PluginCalls) = NumPlugins
    /\ Len(HookCalls) = 2
    /\ NoOpinionSoFar

----------------------------------------------------------------------------
(* C28: during a rebuild onHotReloadComplete is attempted only when the     *)
(* player count found at least one connected player, and on no plugin       *)
(* otherwise; when it is attempted it goes to the plugins in priority order *)
(* and only after the think loop has been restarted.                        *)
HotReloadCompleteCalls == CallsOf("safeHotReloadComplete")

ThinkLoopRestartedBefore(op) ==
    \A i \in DOMAIN calls :
        calls[i].op = op =>
            \E j \in 1..(i - 1) : calls[j] = Call("SetNextThink", 0, 0, <<"now">>)

HotReloadCompleteOnlyWithPlayers ==
    handler = "after" =>
        LET hrc == HotReloadCompleteCalls IN
        /\ (pc = "onHotReloadComplete" \/ hrc # <<>>) =>
              /\ PlayersConnected
              /\ nextThink = "scheduled"
        /\ ThinkLoopRestartedBefore("safeHotReloadComplete")
        /\ CalledNames(hrc) = FirstNames(Len(hrc))
        /\ (HasReturned /\ PlayersConnected) => Len(hrc) = Len(orderedPlugins)
        /\ (Ended /\ ~PlayersConnected) => hrc = <<>>

(* Two rebuilds that are over: one found players and went through all the   *)
(* plugins, the second registered first                                     *)
HotReloadCompleteOnlyWithPlayersWitness ==
    /\ handler = "after"
    /\ HasReturned
    /\ PlayersConnected
    /\ Len(HotReloadCompleteCalls) = NumPlugins
    /\ HotReloadCompleteCalls[1].name = 2

(* ... the other found none, and its log ends with the player count *)
NoPlayersNoHotReloadComplete ==
    /\ handler = "after"
    /\ HasReturned
    /\ ~PlayersConnected
    /\ calls[Len(calls)].op = "GetPlayerController"

----------------------------------------------------------------------------
(* C29: the onHotReloadComplete pass is fault-isolated: the exception of    *)
(* one plugin's hook is caught, the plugins ordered after it still get      *)
(* theirs, and the rebuild completes.                                       *)
HotReloadCompleteThrowIsolated ==
    (handler = "after" /\ \E i \in DOMAIN calls :
                              calls[i].op = "safeHotReloadComplete" /\ calls[i].val = Throws) =>
        LET hrc == HotReloadCompleteCalls IN
        /\ result.kind # "threw"
        /\ pc \in {"onHotReloadComplete", "idle"}
        /\ pc = "onHotReloadComplete" => CalledNames(hrc) = FirstNames(idx - 1)
        /\ pc = "idle" =>
              /\ HasReturned
              /\ phase = "running"
              /\ CalledNames(hrc) = NamesOf(orderedPlugins)

(* The first plugin's hook threw and the other two were called after it *)
HotReloadCompleteThrowIsolatedWitness ==
    /\ handler = "after"
    /\ HasReturned
    /\ Len(HotReloadCompleteCalls) = NumPlugins
    /\ HotReloadCompleteCalls[1].val = Throws
    /\ HotReloadCompleteCalls[2].val = Ok
    /\ HotReloadCompleteCalls[3].val = Ok

----------------------------------------------------------------------------
(* C31: emit calls the subscribers of its event in the order in which they  *)
(* subscribed, before it returns, and calls no handler subscribed to        *)
(* another event: when the loop of an emit is over, the subscribers it      *)
(* found (those unsubscribed meanwhile apart) have been called once each,   *)
(* in subscription order.                                                   *)
UidsOf(subs) == [k \in DOMAIN subs |-> subs[k].uid]

KeptUids(f) == UidsOf(SelectSeq(f.snapshot, LAMBDA sub : sub.id \notin f.offed))

EmitCallsSubscribersInOrder ==
    /\ \A k \in DOMAIN frames :
          frames[k].stage = "handler" => frames[k].cur.eventName = frames[k].event
    /\ (frames # <<>> /\ Top.stage = "remove") =>
          LET kept == KeptUids(Top)
          IN SelectSeq(Top.delivered, LAMBDA uid : uid \in Range(kept)) = kept

----------------------------------------------------------------------------
(* C32: off(id) removes exactly the one subscription that has that id and   *)
(* leaves every other subscription, their order and the id counter as they  *)
(* were; off with an id no live subscription has changes nothing.           *)
Without(subs, id) == SelectSeq(subs, LAMBDA sub : sub.id # id)

OffRemovesExactlyOne ==
    [][\A id \in 1..MaxSubs :
          Off(id) =>
              /\ \A e \in EventNames : subscriptions'[e] = Without(subscriptions[e], id)
              /\ Cardinality(AllSubscriptions) - Cardinality(AllSubscriptions')
                    = Cardinality({sub \in AllSubscriptions : sub.id = id})
              /\ Cardinality({sub \in AllSubscriptions : sub.id = id}) <= 1
              /\ nextId' = nextId
              /\ invoked' = invoked]_vars

(* Three subscribers of one event were all called by the one emit so far;   *)
(* the second has gone since, the first and the third are left in order and *)
(* the next id is still 4                                                   *)
OffRemovesExactlyOneWitness ==
    /\ frames = <<>>
    /\ created = 3
    /\ emits = 1
    /\ \A uid \in 1..3 : invoked[uid] = 1
    /\ \E e \in EventNames :
          /\ Len(subscriptions[e]) = 2
          /\ subscriptions[e][1].id = 1
          /\ subscriptions[e][2].id = 3
    /\ nextId = 4

----------------------------------------------------------------------------
(* C33: clear(event) removes all subscribers of that event and leaves the   *)
(* subscribers of every other event and the id counter as they were;        *)
(* clearAll() removes every subscription and resets the id counter, so that *)
(* the next id handed out is 1; after either call subscriberCount is 0 and  *)
(* hasSubscribers is false for the events cleared.                          *)
BusAfter == [subs |-> subscriptions', next |-> nextId', frames |-> frames']

ClearRemovesWhatItNames ==
    [][/\ \A e \in EventNames :
             Clear(e) =>
                 /\ subscriberCount(BusAfter, e) = 0
                 /\ ~hasSubscribers(BusAfter, e)
                 /\ \A other \in EventNames \ {e} :
                       subscriptions'[other] = subscriptions[other]
                 /\ nextId' = nextId
       /\ ClearAll =>
             /\ \A e \in EventNames :
                   subscriberCount(BusAfter, e) = 0 /\ ~hasSubscribers(BusAfter, e)
             /\ nextId' = 1
       /\ \A e \in EventNames : \A once \in BOOLEAN :
             (On(e, once) /\ nextId = 1) =>
                 (AllSubscriptions = {} /\ \A sub \in AllSubscriptions' : sub.id = 1)]_vars

(* clearAll() has removed two subscriptions, and the one made since has     *)
(* been handed id 1                                                         *)
ClearRemovesWhatItNamesWitness ==
    /\ frames = <<>>
    /\ created = 3
    /\ nextId = 2
    /\ \E e \in EventNames :
          /\ Len(subscriptions[e]) = 1
          /\ subscriptions[e][1].id = 1
          /\ subscriptions[e][1].uid = 3
          /\ \A other \in EventNames \ {e} : subscriptions[other] = <<>>

----------------------------------------------------------------------------
(* C34: a once subscription is removed by the first emit that delivers to   *)
(* it even when its handler throws: when that emit returns, the             *)
(* subscription is no longer among the subscribers.                         *)
ThrowingOnceIsRemoved ==
    [][EmitEnd =>
          \A sub \in AllSubscriptions' : ~(sub.once /\ sub.uid \in Top.threw)]_vars

----------------------------------------------------------------------------
(* C35: a subscription id identifies one subscription for good: the live    *)
(* subscriptions have pairwise distinct ids, and the deferred removal of    *)
(* the once subscriptions of an emit removes none but subscriptions that    *)
(* emit delivered to, a clearAll() during the emit notwithstanding.         *)
LiveIdsDistinct ==
    \A a, b \in AllSubscriptions : a.id = b.id => a = b

StaleIdRemovesNothingNew ==
    /\ []LiveIdsDistinct
    /\ [][EmitEnd =>
             \A sub \in AllSubscriptions \ AllSubscriptions' :
                 sub.uid \in Range(Top.delivered)]_vars

----------------------------------------------------------------------------
(* C36: validateStateShape reports a circular reference only when the state *)
(* really contains a reference cycle: a state that is acyclic, free of      *)
(* functions and free of IsValid-bearing objects is valid, also when one    *)
(* object in it is reachable through two paths.                             *)
CircularOnlyForCycles ==
    (handler = "validateStateShape" /\ IsObject(heap.state)) =>
        LET v == result.value IN
        /\ (\E i \in DOMAIN v.error : v.error[i].kind = "Circular reference")
              => ContainsCycle(heap)
        /\ (~ContainsCycle(heap) /\ ~ContainsFunction(heap) /\ ~ContainsEntity(heap))
              => v.valid

----------------------------------------------------------------------------
(* C37: validateStateShape terminates on every finite object graph, graphs  *)
(* with reference cycles included, and enters each distinct object at most  *)
(* once.                                                                    *)
EntersEachObjectOnce ==
    (handler = "validateStateShape" /\ IsObject(heap.state)) =>
        LET visits == walkState(heap).visits IN
        /\ \A i, j \in DOMAIN visits : visits[i] = visits[j] => i = j
        /\ Range(visits) \subseteq Reachable(heap)
        /\ Len(visits) <= MaxNodes
        /\ visits[1] = heap.state[2]
        /\ result.value.valid \in BOOLEAN

(* The walk is over on a state whose two objects refer to each other, and   *)
(* on one whose second object is held twice by the first                    *)
EntersEachObjectOnceWitness ==
    /\ handler = "validateStateShape"
    /\ IsObject(heap.state)
    /\ heap.nodes[1].kind # "entity"
    /\ heap.nodes[2].kind # "entity"
    /\ Ref(2) \in Range(heap.nodes[1].fields)
    /\ Ref(1) \in Range(heap.nodes[2].fields)
    /\ walkState(heap).visits = <<1, 2>>

SharedObjectEnteredOnce ==
    /\ handler = "validateStateShape"
    /\ IsObject(heap.state)
    /\ heap.nodes[1].kind # "entity"
    /\ \A f \in DOMAIN heap.nodes[1].fields : heap.nodes[1].fields[f] = Ref(2)
    /\ walkState(heap).visits = <<1, 2>>

----------------------------------------------------------------------------
(* C38: outside checkpoint cycles the think loop never stops on its own:    *)
(* once initialize has returned, whenever no handler is running a next tick *)
(* is scheduled, whatever the onThink hooks of the plugins did.             *)
ThinkLoopNeverStops ==
    (phase = "running" /\ Ended /\ handler # "initialize") => nextThink = "scheduled"

----------------------------------------------------------------------------
----------------------------------------------------------------------------
(* C40: whenever the orchestrator is running, the names with a registered   *)
(* instance are the names of the ordered plugin list, each with one         *)
(* instance, of the current generation, and no event, think or damage       *)
(* dispatch changes the ordered list or the registered instances.           *)
OrderedNames == NamesOf(orderedPlugins)

RegistryMatchesOrderedList ==
    /\ [](phase = "running" =>
             /\ Active = Range(OrderedNames)
             /\ \A i, j \in DOMAIN OrderedNames : OrderedNames[i] = OrderedNames[j] => i = j
             /\ \A n \in Active : activePlugins[n] = cycles + 1)
    /\ [][handler' \in {"event", "think", "damage"} =>
             (orderedPlugins' = orderedPlugins /\ activePlugins' = activePlugins)]_vars

(* An event has gone through the plugins of a rebuild that dropped one of   *)
(* the plugins of the boot                                                  *)
RegistryMatchesOrderedListWitness ==
    /\ phase = "running"
    /\ cycles = 1
    /\ handler = "event"
    /\ HasReturned
    /\ Len(HookCalls) = NumPlugins - 1
    /\ Cardinality(Active) = NumPlugins - 1
    /\ Active = Range(OrderedNames)

====
